---- MODULE Spec2Model ----
(***************************************************************************)
(* Model of the IndiGo booking scraper: the run loop of run_scraper, the   *)
(* per-request pipeline of scrape_booking_details (navigate, fill, click,  *)
(* load detection, extraction, record assembly) and the export.            *)
(* Strings are TLA+ strings; Len, \o and SubSeq work on them as Python's   *)
(* len, + and slicing do.                                                  *)
(***************************************************************************)
EXTENDS Integers, Sequences, FiniteSets, TLC

VARIABLES
    pc,             \* position of the control flow in run_scraper / scrape_booking_details
    driver,         \* self.driver: "none", "open" or "closed"
    csv_file,       \* the table in the file at self.csv_file_path
    bookings,       \* the list load_csv_data returned
    i,              \* 1-based index of the request the loop is at (enumerate(bookings, 1))
    reqState,       \* per request: its state in START..RECORDED
    page,           \* the document the browser session currently shows
    pnr_input,      \* local of fill_booking_details
    lastname_input, \* local of fill_booking_details
    button,         \* local of click_get_itinerary
    broke,          \* per selector loop: did it leave through its break
    fields,         \* text typed into each form element
    exc,            \* str(e) of the exception being handled, or None
    flight_details, \* local of scrape_booking_details
    passengers,     \* local of scrape_booking_details
    scraped_data,   \* self.scraped_data
    origin,         \* for each record of scraped_data, the index of the request that appended it
    processed,      \* indices of the requests handed to scrape_booking_details, in order
    delays,         \* requests after which the inter-request sleep ran
    exports,        \* the tables written to the output file, in order
    export_calls,   \* number of calls of export_to_csv in this run
    outcome,        \* how run_scraper ended: "running", "returned" or "raised"
    time_sleep,     \* the function installed as time.sleep: "original" or "custom"
    delay_seconds,  \* the front-end's slider 'Delay between bookings', or None
    progress_callback, \* scraper.progress_callback: None or "update_progress"
    processed_count,   \* processed_count[0] of the front-end
    total_bookings, \* len(df_preview) of the front-end
    waits           \* the sleeps of the request under way: where, and for how many ms

vars == <<pc, driver, csv_file, bookings, i, reqState, page, pnr_input, lastname_input, button,
          broke, fields, exc, flight_details, passengers, scraped_data, origin,
          processed, delays, exports, export_calls, outcome,
          time_sleep, delay_seconds, progress_callback, processed_count, total_bookings, waits>>

\* ---------------------------------------------------------------- bounds

\* most data rows in an input table
MaxRows == 2

\* ------------------------------------------------------- program constants

\* str(e)[:50]
ErrorCut == 50

\* len(df.columns) < 3
MinColumns == 3

\* url = "https://www.goindigo.in/edit-booking.html"
LookupUrl == "https://www.goindigo.in/edit-booking.html"

None == "None"
\* a find_element that raised, a cell pandas read as missing
Absent == "<absent>"
NaN == "<NaN>"

\* ---------------------------------------------------------- string helpers

Min(a, b) == IF a < b THEN a ELSE b

Max(a, b) == IF a > b THEN a ELSE b

\* s[k] as a one-character string
Char(s, k) == SubSeq(s, k, k)

\* s[:n]
Prefix(s, n) == SubSeq(s, 1, Min(n, Len(s)))

UpperAlphabet == "ABCDEFGHIJKLMNOPQRSTUVWXYZ"

LowerAlphabet == "abcdefghijklmnopqrstuvwxyz"

Digits == "0123456789"

IsIn(c, alphabet) == \E k \in 1..Len(alphabet) : Char(alphabet, k) = c

LowerChar(c) ==
    IF IsIn(c, UpperAlphabet)
    THEN Char(LowerAlphabet, CHOOSE k \in 1..Len(UpperAlphabet) : Char(UpperAlphabet, k) = c)
    ELSE c

\* the characters of s from position k on, in lower case
RECURSIVE LowerFrom(_, _)
LowerFrom(s, k) ==
    IF k > Len(s) THEN "" ELSE LowerChar(Char(s, k)) \o LowerFrom(s, k + 1)

\* str.lower()
Lower(s) == LowerFrom(s, 1)

\* sub in s
Contains(s, sub) ==
    \E k \in 1..(Len(s) - Len(sub) + 1) : SubSeq(s, k, k + Len(sub) - 1) = sub

IsSpace(c) == c = " " \/ c = "\n" \/ c = "\t"

\* the first position of s from k on that holds no white space, Len(s) + 1 when none
RECURSIVE FirstInk(_, _)
FirstInk(s, k) ==
    IF k <= Len(s) /\ IsSpace(Char(s, k)) THEN FirstInk(s, k + 1) ELSE k

\* the last position of s up to k that holds no white space, 0 when none
RECURSIVE LastInk(_, _)
LastInk(s, k) ==
    IF k >= 1 /\ IsSpace(Char(s, k)) THEN LastInk(s, k - 1) ELSE k

\* str.strip()
Strip(s) == SubSeq(s, FirstInk(s, 1), LastInk(s, Len(s)))

\* all sequences over S of length at most n
SeqUpTo(S, n) == UNION {[1..k -> S] : k \in 0..n}

\* ------------------------------------------------------------ Input Loader

\* str(row[column]): pandas' missing value prints as 'nan'
CellStr(cell) == IF cell = NaN THEN "nan" ELSE cell

\* the loop body of load_csv_data: the (pnr, lastname, bms_code) of one row
RowRequest(row) ==
    [pnr |-> Strip(CellStr(row[1])),
     lastname |-> Strip(CellStr(row[2])),
     bms_code |-> IF row[3] # NaN THEN Strip(CellStr(row[3])) ELSE ""]

\* a filter that also wants a BMS code
RowKept_needs_bms(row) ==
    LET r == RowRequest(row)
    IN  r.pnr # "" /\ r.lastname # "" /\ r.bms_code # ""
        /\ Lower(r.pnr) # "nan" /\ Lower(r.lastname) # "nan"

\* if pnr and lastname and pnr.lower() != 'nan' and lastname.lower() != 'nan'
RowKept(row) ==
    LET r == RowRequest(row)
    IN  r.pnr # "" /\ r.lastname # "" /\ Lower(r.pnr) # "nan" /\ Lower(r.lastname) # "nan"

RECURSIVE LoadRows(_)
LoadRows(rows) ==
    IF rows = <<>> THEN <<>>
    ELSE (IF RowKept(Head(rows)) THEN <<RowRequest(Head(rows))>> ELSE <<>>)
         \o LoadRows(Tail(rows))

\* a loader that takes a narrow table for an empty one
load_csv_data_lenient(table) ==
    IF table.columns < MinColumns
    THEN [raised |-> FALSE, bookings |-> <<>>, message |-> None]
    ELSE [raised |-> FALSE, bookings |-> LoadRows(table.rows), message |-> None]

\* load_csv_data: the bookings of a table, or the ValueError of a table too narrow
load_csv_data(table) ==
    IF table.columns < MinColumns
    THEN [raised |-> TRUE, bookings |-> <<>>,
          message |-> "CSV must have at least 3 columns (PNR, Last Name, and BMS Code)"]
    ELSE [raised |-> FALSE, bookings |-> LoadRows(table.rows), message |-> None]

\* ----------------------------------------------------------- Page Navigator

pnr_selectors ==
    << "input[placeholder*='PNR']",
       "input[placeholder*='Booking Reference']",
       "input[placeholder*='Booking reference']",
       "input[name*='pnr']",
       "input[id*='pnr']",
       "input[type='text']:first-of-type" >>

lastname_selectors ==
    << "input[placeholder*='Last Name']",
       "input[placeholder*='Last name']",
       "input[placeholder*='Email']",
       "input[placeholder*='Email ID']",
       "input[name*='lastname']",
       "input[name*='email']",
       "input[type='text']:last-of-type" >>

button_selectors ==
    << "//button[contains(text(), 'Get Itinerary')]",
       "//input[@value='Get Itinerary']",
       "button[type='submit']",
       ".btn-primary",
       "button:last-of-type" >>

\* the elements of the lookup form a selector can resolve to
Elements == {"e1", "e2"}

Range(f) == {f[x] : x \in DOMAIN f}

\* for selector in selectors: try: x = find(selector); if <accept x>: break; except: continue
\* found[selector] is the element the lookup returned, None when it raised;
\* the loop variable keeps the last element assigned, accepted or not.
RECURSIVE SelectorLoop(_, _, _, _, _)
SelectorLoop(selectors, k, current, found, accept) ==
    IF k > Len(selectors) THEN [element |-> current, broke |-> FALSE]
    ELSE LET e == found[selectors[k]]
         IN  IF e = None THEN SelectorLoop(selectors, k + 1, current, found, accept)
             ELSE IF accept[e] THEN [element |-> e, broke |-> TRUE]
             ELSE SelectorLoop(selectors, k + 1, e, found, accept)

\* the PNR loop of fill_booking_details: is_displayed() and is_enabled()
FindPnrInput(found, usable) ==
    SelectorLoop(pnr_selectors, 1, None, found, usable)

\* the Last Name loop: is_displayed() and is_enabled() and lastname_input != pnr_input
FindLastnameInput(found, usable, pnr) ==
    SelectorLoop(lastname_selectors, 1, None, found,
                 [e \in Elements |-> usable[e] /\ e # pnr])

\* the loop of click_get_itinerary: is_displayed() and is_enabled()
FindButton(found, usable) ==
    SelectorLoop(button_selectors, 1, None, found, usable)

\* str(e) of a selenium exception raised with a message
StrExc(msg) == "Message: " \o msg \o "\n"

\* what driver.get, send_keys or click can raise: str(e) of the driver's exception,
\* shorter and longer than the cut of error_data
DriverErrors ==
    { "Message: timeout\n",
      "Message: element not interactable: element has zero size (Session info: x)\n" }

\* what df.to_csv can raise
ExportErrors == { "[Errno 13] Permission denied: 'booking_details.csv'" }

\* ------------------------------------------------------------ Load Detector

error_selectors ==
    << "//*[contains(text(), 'Invalid')]",
       "//*[contains(text(), 'not found')]",
       "//*[contains(text(), 'incorrect')]",
       "//*[contains(text(), 'error')]" >>

success_indicators ==
    << ".view-itinerary",
       ".itinerary-details-title",
       ".booking-info",
       ".flight-details",
       ".passenger-details" >>

\* p.err[selector]: is_displayed() of the elements the XPath matches, in document order.
\* find_element returns the first of them and raises when there is none.

\* the first loop of check_booking_loaded: error_elem = find_element(By.XPATH, selector);
\* if error_elem.is_displayed(): return False
RECURSIVE ErrorLoop(_, _)
ErrorLoop(p, k) ==
    IF k > Len(error_selectors) THEN FALSE
    ELSE LET matches == p.err[error_selectors[k]]
         IN  IF matches # <<>> /\ matches[1] THEN TRUE
             ELSE ErrorLoop(p, k + 1)

\* p.ind[indicator]: what presence_of_element_located finds: no element (the wait
\* raises), an element that is not displayed, or one that is
Presence == {"absent", "hidden", "shown"}

\* a second loop that returns True for any element located
RECURSIVE IndicatorLoop_located(_, _)
IndicatorLoop_located(p, k) ==
    IF k > Len(success_indicators) THEN FALSE
    ELSE IF p.ind[success_indicators[k]] # "absent" THEN TRUE
    ELSE IndicatorLoop_located(p, k + 1)

\* the second loop: if element and element.is_displayed(): return True
RECURSIVE IndicatorLoop(_, _)
IndicatorLoop(p, k) ==
    IF k > Len(success_indicators) THEN FALSE
    ELSE IF p.ind[success_indicators[k]] = "shown" THEN TRUE
    ELSE IndicatorLoop(p, k + 1)

\* the addresses the session can be at
Urls ==
    { "data:,",
      LookupUrl,
      "https://www.goindigo.in/View-Itinerary.html",
      "https://www.goindigo.in/Booking-Details?pnr=ABC123",
      "https://www.goindigo.in/error.html" }

\* .lower() of each address, evaluated once
LowerUrl == [u \in Urls |-> Lower(u)]

\* current_url = self.driver.current_url.lower(); "itinerary" in ... or "booking-details" in ...
UrlCheck(p) ==
    Contains(LowerUrl[p.url], "itinerary") \/ Contains(LowerUrl[p.url], "booking-details")

\* check_booking_loaded; reading current_url can raise, which the outer handler
\* turns into False
check_booking_loaded(p) ==
    IF ErrorLoop(p, 1) THEN FALSE
    ELSE IF IndicatorLoop(p, 1) THEN TRUE
    ELSE IF p.url_raises THEN FALSE
    ELSE UrlCheck(p)

\* ----------------------------------------------------------- Field Extractor

NotFound == "Not found"

FlightSelectors ==
    { ".booking-info-container-other-info__date span", ".flight-code", ".departure-time",
      ".arrival-time", ".flight-stops", ".cabin .cabin-value", ".checkin .checkin-value" }

\* one try block around all the fields: a missing element spoils every field
TextOr_all_or_nothing(p, selector, default) ==
    IF \E x \in FlightSelectors : p.el[x] = Absent THEN default ELSE Strip(p.el[selector])

\* try: value = find_element(selector).text.strip() except: keep the default
TextOr(p, selector, default) ==
    IF p.el[selector] = Absent THEN default ELSE Strip(p.el[selector])

\* try: f"{find_element(selector).text.strip()} <suffix>" except: keep the default
BaggageOr(p, selector, suffix, default) ==
    IF p.el[selector] = Absent THEN default ELSE Strip(p.el[selector]) \o suffix

\* a route block read one span at a time
RouteOf_first_only(p) ==
    IF p.route # Absent /\ Len(p.route) >= 1
    THEN [Source |-> Strip(p.route[1]),
          Destination |-> IF Len(p.route) >= 2 THEN Strip(p.route[2]) ELSE NotFound]
    ELSE [Source |-> NotFound, Destination |-> NotFound]

\* the route block: p.route is Absent without a route container, else its span texts
RouteOf(p) ==
    IF p.route # Absent /\ Len(p.route) >= 2
    THEN [Source |-> Strip(p.route[1]), Destination |-> Strip(p.route[2])]
    ELSE [Source |-> NotFound, Destination |-> NotFound]

extract_flight_details(p, input_pnr, input_lastname, bms_code) ==
    [BMS_Code |-> bms_code,
     PNR |-> input_pnr,
     Last_Name |-> input_lastname,
     Source |-> RouteOf(p).Source,
     Destination |-> RouteOf(p).Destination,
     Departure_Date |-> TextOr(p, ".booking-info-container-other-info__date span", NotFound),
     Flight_Number |-> TextOr(p, ".flight-code", NotFound),
     Departure_Time |-> TextOr(p, ".departure-time", NotFound),
     Arrival_Time |-> TextOr(p, ".arrival-time", NotFound),
     Stop_Type |-> TextOr(p, ".flight-stops", NotFound),
     Cabin_Baggage |-> BaggageOr(p, ".cabin .cabin-value", " Cabin", NotFound),
     Checkin_Baggage |-> BaggageOr(p, ".checkin .checkin-value", " Check-in", NotFound)]

WordChars == UpperAlphabet \o LowerAlphabet \o Digits \o "_"

\* \b between positions k-1 and k of s, given that one of the two is a word character
BoundaryBefore(s, k) == k = 1 \/ ~IsIn(Char(s, k - 1), WordChars)

BoundaryAfter(s, k) == k = Len(s) \/ ~IsIn(Char(s, k + 1), WordChars)

\* the pattern without its word boundaries, \d{1,2}[A-Z]
SeatMatchAt_unbounded(s, k) ==
    IF ~IsIn(Char(s, k), Digits) THEN 0
    ELSE IF /\ k + 2 <= Len(s)
            /\ IsIn(Char(s, k + 1), Digits)
            /\ IsIn(Char(s, k + 2), UpperAlphabet) THEN 3
    ELSE IF /\ k + 1 <= Len(s)
            /\ IsIn(Char(s, k + 1), UpperAlphabet) THEN 2
    ELSE 0

\* length of the match of \b\d{1,2}[A-Z]\b starting at position k of s, 0 when none
SeatMatchAt(s, k) ==
    IF ~(IsIn(Char(s, k), Digits) /\ BoundaryBefore(s, k)) THEN 0
    ELSE IF /\ k + 2 <= Len(s)
            /\ IsIn(Char(s, k + 1), Digits)
            /\ IsIn(Char(s, k + 2), UpperAlphabet)
            /\ BoundaryAfter(s, k + 2) THEN 3
    ELSE IF /\ k + 1 <= Len(s)
            /\ IsIn(Char(s, k + 1), UpperAlphabet)
            /\ BoundaryAfter(s, k + 1) THEN 2
    ELSE 0

\* re.search(r'\b\d{1,2}[A-Z]\b', seat_text): the leftmost match, or 'Not assigned'
RECURSIVE SeatSearch(_, _)
SeatSearch(s, k) ==
    IF k > Len(s) THEN "Not assigned"
    ELSE IF SeatMatchAt(s, k) > 0 THEN SubSeq(s, k, k + SeatMatchAt(s, k) - 1)
    ELSE SeatSearch(s, k + 1)

SeatOf(section) ==
    IF section.seat = Absent THEN "Not assigned" ELSE SeatSearch(Strip(section.seat), 1)

status_selectors ==
    << ".flight-status", ".booking-status", ".status-chip", "[class*='status']",
       "[class*='chip']" >>

\* the loop over the alternative status selectors; 'Confirmed' when none has text
RECURSIVE AltStatus(_, _)
AltStatus(section, k) ==
    IF k > Len(status_selectors) THEN "Confirmed"
    ELSE LET t == section.alt[status_selectors[k]]
         IN  IF t # Absent /\ Strip(t) # "" THEN Strip(t) ELSE AltStatus(section, k + 1)

StatusOf(section) ==
    IF section.status # Absent THEN Strip(section.status) ELSE AltStatus(section, 1)

\* the passenger dict built from one .passenger-details section that has a name element
PassengerOf(section) ==
    [Name |-> Strip(section.name),
     Gender |-> IF Len(section.p_info) >= 2 THEN Strip(section.p_info[1]) ELSE "Unknown",
     Age_Category |-> IF Len(section.p_info) >= 2 THEN Strip(section.p_info[2]) ELSE "Adult",
     Seat_Number |-> SeatOf(section),
     Flight_Status |-> StatusOf(section)]

\* extract_passenger_details over the sections of the page, in page order
RECURSIVE PassengerLoop(_)
PassengerLoop(sections) ==
    IF sections = <<>> THEN <<>>
    ELSE LET s == Head(sections)
         IN  (IF s.name = Absent THEN <<>>
              ELSE IF PassengerOf(s).Name = "" THEN <<>>
              ELSE <<PassengerOf(s)>>)
             \o PassengerLoop(Tail(sections))

\* an extraction that gives up at the first section without a name element
extract_passenger_details_until_nameless(p) ==
    LET nameless == {k \in 1..Len(p.sections) : p.sections[k].name = Absent}
    IN  IF nameless = {} THEN PassengerLoop(p.sections)
        ELSE PassengerLoop(SubSeq(p.sections, 1,
                 (CHOOSE k \in nameless : \A j \in nameless : k <= j) - 1))

extract_passenger_details(p) == PassengerLoop(p.sections)

\* ---------------------------------------------------------- Record Assembler

\* {**f, **g}: the keys of both, g's value where both have the key
Merge(f, g) == [k \in DOMAIN f \cup DOMAIN g |-> IF k \in DOMAIN g THEN g[k] ELSE f[k]]

\* a loop that numbers the passengers instead of counting them
CombinePassengers_numbered(flight, pax) ==
    [k \in 1..Len(pax) |-> Merge(Merge(flight, pax[k]), [Passenger_Count |-> k])]

\* for passenger in passengers: combined_data = {**flight_details, **passenger};
\* combined_data['Passenger_Count'] = len(passengers); self.scraped_data.append(combined_data)
CombinePassengers(flight, pax) ==
    [k \in 1..Len(pax) |-> Merge(Merge(flight, pax[k]), [Passenger_Count |-> Len(pax)])]

\* the else branch: flight details with default passenger info
PlaceholderRecord(flight) ==
    Merge(flight,
          [Passenger_Count |-> 0,
           Name |-> "No passenger details found",
           Gender |-> "Unknown",
           Age_Category |-> "Unknown",
           Seat_Number |-> "Not found",
           Flight_Status |-> "Check manually"])

\* a combination that keeps the first passenger only
Combine_first_passenger(flight, pax) ==
    IF pax # <<>> THEN <<CombinePassengers(flight, pax)[1]>> ELSE <<PlaceholderRecord(flight)>>

\* the records scrape_booking_details appends for a loaded page
Combine(flight, pax) ==
    IF pax # <<>> THEN CombinePassengers(flight, pax) ELSE <<PlaceholderRecord(flight)>>

\* basic_data: the record of a page that did not load
basic_data(req) ==
    [BMS_Code |-> req.bms_code,
     PNR |-> req.pnr,
     Last_Name |-> req.lastname,
     Source |-> "Failed to load",
     Destination |-> "Failed to load",
     Departure_Date |-> "Failed to load",
     Flight_Number |-> "Failed to load",
     Departure_Time |-> "Failed to load",
     Arrival_Time |-> "Failed to load",
     Stop_Type |-> "Failed to load",
     Cabin_Baggage |-> "Failed to load",
     Checkin_Baggage |-> "Failed to load",
     Passenger_Count |-> 0,
     Name |-> "Failed to load",
     Gender |-> "Unknown",
     Age_Category |-> "Unknown",
     Seat_Number |-> "Not found",
     Flight_Status |-> "Failed"]

\* an else branch that only logs
OnLoadFailed_nothing(req) == <<>>

\* the records appended when check_booking_loaded returned False
OnLoadFailed(req) == <<basic_data(req)>>

\* error_data with the whole of str(e)
error_data_untruncated(req, e) ==
    [BMS_Code |-> req.bms_code,
     PNR |-> req.pnr,
     Last_Name |-> req.lastname,
     Source |-> "Error: " \o e,
     Destination |-> "Error",
     Departure_Date |-> "Error",
     Flight_Number |-> "Error",
     Departure_Time |-> "Error",
     Arrival_Time |-> "Error",
     Stop_Type |-> "Error",
     Cabin_Baggage |-> "Error",
     Checkin_Baggage |-> "Error",
     Passenger_Count |-> 0,
     Name |-> "Error",
     Gender |-> "Unknown",
     Age_Category |-> "Unknown",
     Seat_Number |-> "Error",
     Flight_Status |-> "Error"]

\* error_data: the record of a request whose navigate, fill or click raised e
error_data(req, e) ==
    [BMS_Code |-> req.bms_code,
     PNR |-> req.pnr,
     Last_Name |-> req.lastname,
     Source |-> "Error: " \o Prefix(e, ErrorCut),
     Destination |-> "Error",
     Departure_Date |-> "Error",
     Flight_Number |-> "Error",
     Departure_Time |-> "Error",
     Arrival_Time |-> "Error",
     Stop_Type |-> "Error",
     Cabin_Baggage |-> "Error",
     Checkin_Baggage |-> "Error",
     Passenger_Count |-> 0,
     Name |-> "Error",
     Gender |-> "Unknown",
     Age_Category |-> "Unknown",
     Seat_Number |-> "Error",
     Flight_Status |-> "Error"]

\* an except clause that only logs and returns False
OnException_logged_only(req, e) == <<>>

\* the records appended by the except clause of scrape_booking_details
OnException(req, e) == <<error_data(req, e)>>

\* an except clause that re-raises into run_scraper's handler
AfterException_reraised == "fatal"

\* where run_scraper's loop continues after the except clause returned False
AfterException == "returned"

\* ------------------------------------------------------------------ Exporter

columns ==
    << "BMS_Code", "PNR", "Last_Name", "Name", "Flight_Status", "Seat_Number",
       "Source", "Destination", "Departure_Date", "Flight_Number",
       "Departure_Time", "Arrival_Time", "Stop_Type", "Cabin_Baggage",
       "Checkin_Baggage", "Passenger_Count", "Gender", "Age_Category" >>

\* df = pd.DataFrame(data): the columns are the keys of all records
FrameColumns(data) == UNION {DOMAIN data[k] : k \in 1..Len(data)}

\* the cell of record k in column col after "if col not in df.columns: df[col] = 'Not found'";
\* a key one record lacks and another has is pandas' missing value
CellOf(data, k, col) ==
    IF col \notin FrameColumns(data) THEN NotFound
    ELSE IF col \in DOMAIN data[k] THEN data[k][col]
    ELSE NaN

\* the table export_to_csv writes: df[columns]
ExportTable(data) ==
    [header |-> columns,
     rows |-> [k \in 1..Len(data) |-> [c \in 1..Len(columns) |-> CellOf(data, k, columns[c])]]]

\* ------------------------------------------------------- inputs of the run

\* rows of the input file: a full row, a row with padding and no BMS code, a row
\* without PNR
RunRows ==
    { <<"ABC123", "SHARMA", "BMS1">>,
      <<" XYZ789 ", "Rao", NaN>>,
      <<NaN, "Kumar", "BMS3">> }

RunTables ==
    {[columns |-> 3, rows |-> rs] : rs \in SeqUpTo(RunRows, MaxRows)}
    \cup {[columns |-> 2, rows |-> << <<"ABC123", "SHARMA">> >>]}

NoErr == [x \in Range(error_selectors) |-> <<>>]

NoInd == [x \in Range(success_indicators) |-> "absent"]

NoEl == [x \in FlightSelectors |-> Absent]

NoAlt == [x \in Range(status_selectors) |-> Absent]

\* the session before the first driver.get, and after driver.quit
NoPage ==
    [url |-> "data:,", url_raises |-> FALSE, err |-> NoErr, ind |-> NoInd, el |-> NoEl,
     route |-> Absent, sections |-> <<>>]

\* the lookup form
LookupPage == [NoPage EXCEPT !.url = LookupUrl]

\* answers that check_booking_loaded refuses: an error text is displayed beside a
\* displayed content region; nothing changed
FailedSignals ==
    { [url |-> LookupUrl, url_raises |-> FALSE,
       ind |-> [NoInd EXCEPT ![".booking-info"] = "shown"],
       err |-> [NoErr EXCEPT !["//*[contains(text(), 'Invalid')]"] = <<TRUE>>]],
      [url |-> LookupUrl, url_raises |-> FALSE, ind |-> NoInd, err |-> NoErr] }

\* answers it accepts: by the URL alone; by a displayed content region, with an
\* error text in the page that is not displayed
LoadedSignals ==
    { [url |-> "https://www.goindigo.in/View-Itinerary.html", url_raises |-> FALSE,
       ind |-> NoInd, err |-> NoErr],
      [url |-> LookupUrl, url_raises |-> FALSE,
       ind |-> [NoInd EXCEPT ![".booking-info"] = "shown"],
       err |-> [NoErr EXCEPT !["//*[contains(text(), 'error')]"] = <<FALSE>>]] }

FullEl ==
    [x \in FlightSelectors |->
        CASE x = ".booking-info-container-other-info__date span" -> "12 Jan 2025"
          [] x = ".flight-code" -> " 6E 2045 "
          [] x = ".departure-time" -> "06:10"
          [] x = ".arrival-time" -> "08:25"
          [] x = ".flight-stops" -> "Non-stop"
          [] x = ".cabin .cabin-value" -> "7kg"
          [] x = ".checkin .checkin-value" -> "15kg"]

BareFlight == [el |-> NoEl, route |-> <<"DEL">>]

FullFlight == [el |-> FullEl, route |-> <<"DEL", " BOM ">>]

SectionA ==
    [name |-> " Asha Rao ", p_info |-> <<"Female", "Adult">>, seat |-> "Seat 16A, Window",
     status |-> "No Show", alt |-> NoAlt]

SectionB ==
    [name |-> "Ravi Rao", p_info |-> <<"Male">>, seat |-> "Seat not selected",
     status |-> Absent, alt |-> [NoAlt EXCEPT ![".status-chip"] = "Flown"]]

SectionNameless ==
    [name |-> Absent, p_info |-> <<>>, seat |-> Absent, status |-> "No Show", alt |-> NoAlt]

\* what an answer holds of flight and passengers
RunContents ==
    { [flight |-> BareFlight, sections |-> <<>>],
      [flight |-> FullFlight, sections |-> <<SectionNameless>>],
      [flight |-> FullFlight, sections |-> <<SectionA>>],
      [flight |-> BareFlight, sections |-> <<SectionB, SectionNameless, SectionA>>] }

MakePage(sig, content) ==
    [url |-> sig.url, url_raises |-> sig.url_raises, err |-> sig.err, ind |-> sig.ind,
     el |-> content.flight.el, route |-> content.flight.route,
     sections |-> content.sections]

\* the pages the site answers a submitted form with: the loaded ones, and the
\* refused ones with and without an itinerary in them
RunPages ==
    {MakePage(sig, c) : sig \in LoadedSignals, c \in RunContents}
    \cup {MakePage(sig, [flight |-> [el |-> NoEl, route |-> Absent], sections |-> <<>>]) :
            sig \in FailedSignals}
    \cup {MakePage(sig, [flight |-> FullFlight, sections |-> <<SectionA>>]) :
            sig \in FailedSignals}

\* the selectors the lookup form answers at all
LiveSelectors ==
    { "input[placeholder*='PNR']", "input[name*='pnr']", "input[type='text']:first-of-type",
      "input[placeholder*='Last Name']", "input[name*='email']", "input[type='text']:last-of-type",
      "//button[contains(text(), 'Get Itinerary')]", "button[type='submit']",
      "button:last-of-type" }

\* what each selector of a chain resolves to on the form: an element, or None
Findings(selectors) ==
    { [x \in Range(selectors) |-> IF x \in LiveSelectors THEN g[x] ELSE None] :
        g \in [Range(selectors) \cap LiveSelectors -> Elements \cup {None}] }

Usability == [Elements -> BOOLEAN]

\* ------------------------------------------------------------------- state

NoBroke == [pnr |-> FALSE, lastname |-> FALSE, button |-> FALSE]

NoFields == [e \in Elements |-> ""]

NoFlight == [Source |-> None]

Init ==
    /\ pc = "setup"
    /\ driver = "none"
    /\ csv_file \in RunTables
    /\ bookings = <<>>
    /\ i = 0
    /\ reqState = <<>>
    /\ page = NoPage
    /\ pnr_input = None
    /\ lastname_input = None
    /\ button = None
    /\ broke = NoBroke
    /\ fields = NoFields
    /\ exc = None
    /\ flight_details = NoFlight
    /\ passengers = <<>>
    /\ scraped_data = <<>>
    /\ origin = <<>>
    /\ processed = <<>>
    /\ delays = <<>>
    /\ exports = <<>>
    /\ export_calls = 0
    /\ outcome = "running"
    /\ time_sleep = "original"
    /\ delay_seconds = None
    /\ progress_callback = None
    /\ processed_count = 0
    /\ total_bookings = 0
    /\ waits = <<>>

\* the first request, whichever is being worked on
Request_first == bookings[1]

\* the request scrape_booking_details is working on
Request == bookings[i]

formVars == <<pnr_input, lastname_input, button, broke, fields>>

scrapeVars == <<flight_details, passengers>>

dataVars == <<scraped_data, origin>>

frontVars == <<time_sleep, delay_seconds, progress_callback, processed_count, total_bookings>>

runVars == <<driver, csv_file, bookings, i, processed, delays, exports, export_calls, outcome,
             frontVars, waits>>

\* ------------------------------------------------------------ run_scraper

\* custom_sleep of the front-end, in milliseconds: a sleep of 2 seconds lasts the
\* chosen delay, any other sleep its own time
custom_sleep(ms) == IF ms = 2000 THEN delay_seconds * 1000 ELSE ms

\* time.sleep(ms / 1000): how long the installed function sleeps
Sleep(ms) == IF time_sleep = "custom" THEN custom_sleep(ms) ELSE ms

\* a progress counter that counts every request twice
update_progress_twice(count) == count + 2

\* update_progress: processed_count[0] += 1
update_progress(count) == count + 1

\* setup_driver, all of it
SetupDriver ==
    /\ pc = "setup"
    /\ pc' = "load_csv"
    /\ driver' = "open"
    /\ UNCHANGED <<csv_file, bookings, i, reqState, page, formVars, exc, scrapeVars, dataVars,
                   processed, delays, exports, export_calls, outcome, frontVars, waits>>

\* setup_driver raising: before webdriver.Chrome returned a session, or after it
\* (set_page_load_timeout, execute_script)
SetupDriverFails ==
    /\ pc = "setup"
    /\ \E created \in BOOLEAN, e \in DriverErrors :
        /\ driver' = IF created THEN "open" ELSE "none"
        /\ exc' = e
    /\ pc' = "fatal"
    /\ UNCHANGED <<csv_file, bookings, i, reqState, page, formVars, scrapeVars, dataVars,
                   processed, delays, exports, export_calls, outcome, frontVars, waits>>

\* bookings = self.load_csv_data(); if not bookings: return
LoadCsv ==
    /\ pc = "load_csv"
    /\ LET loaded == load_csv_data(csv_file)
       IN  IF loaded.raised
           THEN /\ pc' = "fatal"
                /\ exc' = loaded.message
                /\ UNCHANGED <<bookings, reqState>>
           ELSE /\ bookings' = loaded.bookings
                /\ reqState' = [j \in 1..Len(loaded.bookings) |-> "PENDING"]
                /\ pc' = IF loaded.bookings = <<>> THEN "finally" ELSE "loop"
                /\ exc' = exc
    /\ UNCHANGED <<driver, csv_file, i, page, formVars, scrapeVars, dataVars,
                   processed, delays, exports, export_calls, outcome, frontVars, waits>>

\* the for loop takes the next booking and calls scrape_booking_details, which in
\* the front-end's subclass first calls progress_callback; the progress bar refuses
\* a fraction above 1
LoopNext ==
    /\ pc = "loop"
    /\ i < Len(bookings)
    /\ i' = i + 1
    /\ waits' = <<>>
    /\ IF progress_callback = None
       THEN /\ processed_count' = processed_count
            /\ processed' = Append(processed, i + 1)
            /\ reqState' = [reqState EXCEPT ![i + 1] = "START"]
            /\ pc' = "navigate"
            /\ exc' = exc
       ELSE /\ processed_count' = update_progress(processed_count)
            /\ IF update_progress(processed_count) > total_bookings
               THEN /\ exc' = "Progress Value has invalid value"
                    /\ pc' = "fatal"
                    /\ UNCHANGED <<processed, reqState>>
               ELSE /\ processed' = Append(processed, i + 1)
                    /\ reqState' = [reqState EXCEPT ![i + 1] = "START"]
                    /\ pc' = "navigate"
                    /\ exc' = exc
    /\ UNCHANGED <<driver, csv_file, bookings, page, formVars, scrapeVars, dataVars,
                   delays, exports, export_calls, outcome,
                   time_sleep, delay_seconds, progress_callback, total_bookings>>

\* a sleep after every booking, the last one too
Delay_every ==
    /\ pc = "returned"
    /\ delays' = Append(delays, i)
    /\ waits' = <<[site |-> "between", ms |-> Sleep(2000)]>>
    /\ pc' = IF i < Len(bookings) THEN "loop" ELSE "export"
    /\ UNCHANGED <<driver, csv_file, bookings, i, reqState, page, formVars, exc, scrapeVars, dataVars,
                   processed, exports, export_calls, outcome, frontVars>>

\* if i < len(bookings): time.sleep(2), after which the loop goes on
Delay ==
    /\ pc = "returned"
    /\ i < Len(bookings)
    /\ delays' = Append(delays, i)
    /\ waits' = <<[site |-> "between", ms |-> Sleep(2000)]>>
    /\ pc' = "loop"
    /\ UNCHANGED <<driver, csv_file, bookings, i, reqState, page, formVars, exc, scrapeVars, dataVars,
                   processed, exports, export_calls, outcome, frontVars>>

\* the last booking: no sleep, the for loop is exhausted
LoopEnd ==
    /\ pc = "returned"
    /\ i = Len(bookings)
    /\ waits' = <<>>
    /\ pc' = "export"
    /\ UNCHANGED <<reqState, page, formVars, exc, scrapeVars, dataVars,
                   driver, csv_file, bookings, i, processed, delays,
                   exports, export_calls, outcome, frontVars>>

\* ------------------------------------------------- scrape_booking_details

\* steps made outside the try block: e reaches run_scraper's handler
Raise_uncaught(e) ==
    /\ exc' = e
    /\ pc' = "fatal"
    /\ pnr_input' = None
    /\ lastname_input' = None
    /\ button' = None
    /\ broke' = NoBroke

\* a step of the try block raised e: control goes to the except clause
Raise(e) ==
    /\ exc' = e
    /\ pc' = "except"
    /\ pnr_input' = None
    /\ lastname_input' = None
    /\ button' = None
    /\ broke' = NoBroke

\* navigate_to_edit_booking: driver.get, the wait for the body, time.sleep(1)
Navigate ==
    /\ pc = "navigate"
    /\ \/ /\ page' = LookupPage
          /\ fields' = NoFields
          /\ reqState' = [reqState EXCEPT ![i] = "NAVIGATED"]
          /\ waits' = Append(waits, [site |-> "navigate", ms |-> Sleep(1000)])
          /\ pc' = "find_pnr"
          /\ UNCHANGED <<pnr_input, lastname_input, button, broke, exc>>
       \/ /\ \E e \in DriverErrors : Raise(e)
          /\ UNCHANGED <<page, fields, reqState, waits>>
    /\ UNCHANGED <<scrapeVars, dataVars, driver, csv_file, bookings, i, processed, delays,
                   exports, export_calls, outcome, frontVars>>

\* fill_booking_details up to "if not pnr_input: raise"
FindPnr ==
    /\ pc = "find_pnr"
    /\ \E found \in Findings(pnr_selectors), usable \in Usability :
        LET r == FindPnrInput(found, usable)
        IN  IF r.element = None
            THEN Raise(StrExc("Could not find PNR input field"))
            ELSE /\ pnr_input' = r.element
                 /\ broke' = [broke EXCEPT !.pnr = r.broke]
                 /\ pc' = "find_lastname"
                 /\ UNCHANGED <<lastname_input, button, exc>>
    /\ UNCHANGED <<reqState, page, fields, scrapeVars, dataVars, runVars>>

\* fill_booking_details up to "if not lastname_input: raise"
FindLastname ==
    /\ pc = "find_lastname"
    /\ \E found \in Findings(lastname_selectors), usable \in Usability :
        LET r == FindLastnameInput(found, usable, pnr_input)
        IN  IF r.element = None
            THEN Raise(StrExc("Could not find Last Name input field"))
            ELSE /\ lastname_input' = r.element
                 /\ broke' = [broke EXCEPT !.lastname = r.broke]
                 /\ pc' = "type_form"
                 /\ UNCHANGED <<pnr_input, button, exc>>
    /\ UNCHANGED <<reqState, page, fields, scrapeVars, dataVars, runVars>>

\* pnr_input.clear(); pnr_input.send_keys(pnr); lastname_input.clear();
\* lastname_input.send_keys(lastname): the driver refuses an element it cannot
\* interact with
TypeForm ==
    /\ pc = "type_form"
    /\ \/ /\ fields' = [[fields EXCEPT ![pnr_input] = Request.pnr]
                            EXCEPT ![lastname_input] = Request.lastname]
          /\ pnr_input' = None
          /\ lastname_input' = None
          /\ broke' = NoBroke
          /\ pc' = "find_button"
          /\ UNCHANGED <<button, exc>>
       \/ /\ \E e \in DriverErrors : Raise(e)
          /\ UNCHANGED fields
    /\ UNCHANGED <<reqState, page, scrapeVars, dataVars, runVars>>

\* click_get_itinerary up to "if not button: raise"
FindButtonStep ==
    /\ pc = "find_button"
    /\ \E found \in Findings(button_selectors), usable \in Usability :
        LET r == FindButton(found, usable)
        IN  IF r.element = None
            THEN Raise(StrExc("Could not find Get Itinerary button"))
            ELSE /\ button' = r.element
                 /\ broke' = [broke EXCEPT !.button = r.broke]
                 /\ pc' = "do_click"
                 /\ UNCHANGED <<pnr_input, lastname_input, exc>>
    /\ UNCHANGED <<reqState, page, fields, scrapeVars, dataVars, runVars>>

\* scrollIntoView, time.sleep(0.5), button.click() with the script click as
\* fallback, time.sleep(3): the site answers with a page, or the scroll raises, or
\* both clicks raise
DoClick ==
    /\ pc = "do_click"
    /\ \/ /\ \E p \in RunPages : page' = p
          /\ fields' = NoFields
          /\ button' = None
          /\ broke' = NoBroke
          /\ reqState' = [reqState EXCEPT ![i] = "SUBMITTED"]
          /\ waits' = waits \o <<[site |-> "scroll", ms |-> Sleep(500)],
                                 [site |-> "click", ms |-> Sleep(3000)]>>
          /\ pc' = "check_loaded"
          /\ UNCHANGED <<pnr_input, lastname_input, exc>>
       \/ /\ \E e \in DriverErrors : Raise(e)
          /\ \E scrolled \in BOOLEAN :
                waits' = IF scrolled
                         THEN Append(waits, [site |-> "scroll", ms |-> Sleep(500)])
                         ELSE waits
          /\ UNCHANGED <<page, fields, reqState>>
    /\ UNCHANGED <<scrapeVars, dataVars, driver, csv_file, bookings, i, processed, delays,
                   exports, export_calls, outcome, frontVars>>

\* if self.check_booking_loaded(): the function sleeps 2 seconds before it looks
CheckLoaded ==
    /\ pc = "check_loaded"
    /\ waits' = Append(waits, [site |-> "check_loaded", ms |-> Sleep(2000)])
    /\ IF check_booking_loaded(page)
       THEN /\ reqState' = [reqState EXCEPT ![i] = "LOADED"]
            /\ pc' = "extract_flight"
       ELSE /\ reqState' = [reqState EXCEPT ![i] = "LOAD_FAILED"]
            /\ pc' = "load_failed"
    /\ UNCHANGED <<page, formVars, exc, scrapeVars, dataVars, driver, csv_file, bookings, i, processed, delays,
                   exports, export_calls, outcome, frontVars>>

\* flight_details = self.extract_flight_details(pnr, lastname, bms_code)
ExtractFlight ==
    /\ pc = "extract_flight"
    /\ flight_details' =
         extract_flight_details(page, Request.pnr, Request.lastname, Request.bms_code)
    /\ pc' = "extract_passengers"
    /\ UNCHANGED <<reqState, page, formVars, exc, passengers, dataVars, runVars>>

\* passengers = self.extract_passenger_details()
ExtractPassengers ==
    /\ pc = "extract_passengers"
    /\ passengers' = extract_passenger_details(page)
    /\ reqState' = [reqState EXCEPT ![i] = "EXTRACTED"]
    /\ pc' = "combine"
    /\ UNCHANGED <<page, formVars, exc, flight_details, dataVars, runVars>>

\* records put in front of the accumulator
AppendRecords_prepend(recs) ==
    /\ scraped_data' = recs \o scraped_data
    /\ origin' = [k \in 1..Len(recs) |-> i] \o origin
    /\ flight_details' = NoFlight
    /\ passengers' = <<>>
    /\ reqState' = [reqState EXCEPT ![i] = "RECORDED"]

\* self.scraped_data.append(...) for each record of recs, then return
AppendRecords(recs) ==
    /\ scraped_data' = scraped_data \o recs
    /\ origin' = origin \o [k \in 1..Len(recs) |-> i]
    /\ flight_details' = NoFlight
    /\ passengers' = <<>>
    /\ reqState' = [reqState EXCEPT ![i] = "RECORDED"]

\* the if passengers / else of the loaded branch
CombineStep ==
    /\ pc = "combine"
    /\ AppendRecords(Combine(flight_details, passengers))
    /\ pc' = "returned"
    /\ UNCHANGED <<page, formVars, exc, runVars>>

\* the else branch of "if self.check_booking_loaded()"
RecordLoadFailure ==
    /\ pc = "load_failed"
    /\ AppendRecords(OnLoadFailed(Request))
    /\ pc' = "returned"
    /\ UNCHANGED <<page, formVars, exc, runVars>>

\* except Exception as e: append error_data, return False
HandleException ==
    /\ pc = "except"
    /\ AppendRecords(OnException(Request, exc))
    /\ exc' = None
    /\ pc' = AfterException
    /\ UNCHANGED <<page, formVars, runVars>>

\* ------------------------------------------------- export and the way out

\* self.export_to_csv() after the loop: nothing to write, a write, or a write that raises
Export ==
    /\ pc = "export"
    /\ export_calls' = export_calls + 1
    /\ \/ /\ scraped_data = <<>>
          /\ pc' = "finally"
          /\ UNCHANGED <<exports, exc>>
       \/ /\ scraped_data # <<>>
          /\ exports' = Append(exports, ExportTable(scraped_data))
          /\ pc' = "finally"
          /\ exc' = exc
       \/ /\ scraped_data # <<>>
          /\ \E e \in ExportErrors : exc' = e
          /\ pc' = "fatal"
          /\ UNCHANGED exports
    /\ UNCHANGED <<driver, csv_file, bookings, i, reqState, page, formVars, scrapeVars, dataVars,
                   processed, delays, outcome, frontVars, waits>>

\* an except clause that tries the export again as long as it fails
Fatal_retrying ==
    /\ pc = "fatal"
    /\ \/ /\ scraped_data = <<>>
          /\ exc' = None
          /\ pc' = "finally"
          /\ UNCHANGED <<exports, export_calls>>
       \/ /\ scraped_data # <<>>
          /\ export_calls' = export_calls + 1
          /\ \/ /\ exports' = Append(exports, ExportTable(scraped_data))
                /\ exc' = None
                /\ pc' = "finally"
             \/ /\ \E e \in ExportErrors : exc' = e
                /\ pc' = IF export_calls < 3 THEN "fatal" ELSE "finally"
                /\ UNCHANGED exports
    /\ UNCHANGED <<driver, csv_file, bookings, i, reqState, page, formVars, scrapeVars, dataVars,
                   processed, delays, outcome, frontVars, waits>>

\* except Exception as e: if self.scraped_data: self.export_to_csv(); an export that
\* raises here leaves run_scraper through the finally clause
Fatal ==
    /\ pc = "fatal"
    /\ \/ /\ scraped_data = <<>>
          /\ exc' = None
          /\ UNCHANGED <<exports, export_calls>>
       \/ /\ scraped_data # <<>>
          /\ export_calls' = export_calls + 1
          /\ \/ /\ exports' = Append(exports, ExportTable(scraped_data))
                /\ exc' = None
             \/ /\ \E e \in ExportErrors : exc' = e
                /\ UNCHANGED exports
    /\ pc' = "finally"
    /\ UNCHANGED <<driver, csv_file, bookings, i, reqState, page, formVars, scrapeVars, dataVars,
                   processed, delays, outcome, frontVars, waits>>

\* a finally clause that forgets the session
Finally_no_quit ==
    /\ pc = "finally"
    /\ outcome' = IF exc # None THEN "raised" ELSE "returned"
    /\ pc' = "done"
    /\ UNCHANGED <<driver, page, csv_file, bookings, i, reqState, formVars, exc, scrapeVars,
                   dataVars, processed, delays, exports, export_calls, frontVars, waits>>

\* finally: if self.driver: self.driver.quit()
Finally ==
    /\ pc = "finally"
    /\ driver' = IF driver = "open" THEN "closed" ELSE driver
    /\ page' = IF driver = "open" THEN NoPage ELSE page
    /\ outcome' = IF exc # None THEN "raised" ELSE "returned"
    /\ pc' = "done"
    /\ UNCHANGED <<csv_file, bookings, i, reqState, formVars, exc, scrapeVars, dataVars,
                   processed, delays, exports, export_calls, frontVars, waits>>

\* the for loop of run_scraper and what follows it
NextLoop ==
    \/ LoopNext
    \/ LoopEnd
    \/ Delay
    \/ Navigate
    \/ FindPnr
    \/ FindLastname
    \/ TypeForm
    \/ FindButtonStep
    \/ DoClick
    \/ CheckLoaded
    \/ ExtractFlight
    \/ ExtractPassengers
    \/ CombineStep
    \/ RecordLoadFailure
    \/ HandleException
    \/ Export
    \/ Fatal
    \/ Finally

Next ==
    \/ SetupDriver
    \/ SetupDriverFails
    \/ LoadCsv
    \/ NextLoop

Spec == Init /\ [][Next]_vars

\* a table that load_csv_data reads as the list bs
TableOf(bs) ==
    [columns |-> 3,
     rows |-> [j \in 1..Len(bs) |->
                 <<bs[j].pnr, bs[j].lastname,
                   IF bs[j].bms_code = "" THEN NaN ELSE bs[j].bms_code>>]]

\* the lists load_csv_data hands to the loop: one of each length, neighbours differing
LoopBookings ==
    { [j \in 1..n |-> IF j % 2 = 1 THEN RowRequest(<<"ABC123", "SHARMA", "BMS1">>)
                                    ELSE RowRequest(<<" XYZ789 ", "Rao", NaN>>)] :
        n \in 1..MaxRows }

\* run_scraper when load_csv_data has returned a non-empty list
InitLoop ==
    /\ pc = "loop"
    /\ driver = "open"
    /\ bookings \in LoopBookings
    /\ csv_file = TableOf(bookings)
    /\ i = 0
    /\ reqState = [j \in 1..Len(bookings) |-> "PENDING"]
    /\ page = NoPage
    /\ pnr_input = None
    /\ lastname_input = None
    /\ button = None
    /\ broke = NoBroke
    /\ fields = NoFields
    /\ exc = None
    /\ flight_details = NoFlight
    /\ passengers = <<>>
    /\ scraped_data = <<>>
    /\ origin = <<>>
    /\ processed = <<>>
    /\ delays = <<>>
    /\ exports = <<>>
    /\ export_calls = 0
    /\ outcome = "running"
    /\ time_sleep = "original"
    /\ delay_seconds = None
    /\ progress_callback = None
    /\ processed_count = 0
    /\ total_bookings = 0
    /\ waits = <<>>

\* the loop is one sequential thread whose waits are all bounded (page-load timeout,
\* WebDriverWait, sleeps): it always takes its next step
FairSpec == InitLoop /\ [][NextLoop]_vars /\ WF_vars(NextLoop)

\* ----------------------------------------- check_booking_loaded on its own

\* what an error XPath can match: nothing, one element hidden or displayed, a hidden
\* element followed by a displayed one
ErrMatchLists == { <<>>, <<FALSE>>, <<TRUE>>, <<FALSE, TRUE>> }

CheckErrs == [Range(error_selectors) -> ErrMatchLists]

\* no content region located, or one of them, hidden or displayed
CheckInds ==
    { f \in [Range(success_indicators) -> Presence] :
        Cardinality({x \in DOMAIN f : f[x] # "absent"}) <= 1 }

\* the signals of a page: every combination of the above at each address, and a
\* session whose current_url raises
CheckSignals ==
    { [url |-> u, url_raises |-> FALSE, err |-> e, ind |-> n] :
        u \in Urls \ {"data:,"}, e \in CheckErrs, n \in CheckInds }
    \cup { [url |-> LookupUrl, url_raises |-> TRUE, err |-> e, ind |-> n] :
             e \in CheckErrs, n \in CheckInds }

CheckPages ==
    { MakePage(sig, [flight |-> FullFlight, sections |-> <<SectionA>>]) : sig \in CheckSignals }

CheckRequest == [pnr |-> "ABC123", lastname |-> "SHARMA", bms_code |-> "BMS1"]

\* scrape_booking_details after click_get_itinerary returned, on any page
InitCheck ==
    /\ pc = "check_loaded"
    /\ driver = "open"
    /\ bookings = <<CheckRequest>>
    /\ csv_file = TableOf(bookings)
    /\ i = 1
    /\ reqState = <<"SUBMITTED">>
    /\ page \in CheckPages
    /\ pnr_input = None
    /\ lastname_input = None
    /\ button = None
    /\ broke = NoBroke
    /\ fields = NoFields
    /\ exc = None
    /\ flight_details = NoFlight
    /\ passengers = <<>>
    /\ scraped_data = <<>>
    /\ origin = <<>>
    /\ processed = <<1>>
    /\ delays = <<>>
    /\ exports = <<>>
    /\ export_calls = 0
    /\ outcome = "running"
    /\ time_sleep = "original"
    /\ delay_seconds = None
    /\ progress_callback = None
    /\ processed_count = 0
    /\ total_bookings = 0
    /\ waits = <<>>

NextCheck == CheckLoaded

SpecCheck == InitCheck /\ [][NextCheck]_vars

\* ------------------------------------------ the standalone script's variant

SA_success_indicators ==
    << ".view-itinerary", ".itinerary-details-title", ".booking-info", ".flight-details" >>

\* for indicator in success_indicators: element = wait.until(presence...); if element:
\* return True
RECURSIVE SA_IndicatorLoop(_, _)
SA_IndicatorLoop(p, k) ==
    IF k > Len(SA_success_indicators) THEN FALSE
    ELSE IF p.ind[SA_success_indicators[k]] # "absent" THEN TRUE
    ELSE SA_IndicatorLoop(p, k + 1)

SA_check_booking_loaded(p) == SA_IndicatorLoop(p, 1)

\* the standalone extract_flight_details: Cabin_Baggage is read from the check-in
\* element and Checkin_Baggage from the cabin element
SA_extract_flight_details(p, input_pnr, input_lastname, bms_code) ==
    [BMS_Code |-> bms_code,
     PNR |-> input_pnr,
     Last_Name |-> input_lastname,
     Source |-> RouteOf(p).Source,
     Destination |-> RouteOf(p).Destination,
     Departure_Date |-> TextOr(p, ".booking-info-container-other-info__date span", NotFound),
     Flight_Number |-> TextOr(p, ".flight-code", NotFound),
     Departure_Time |-> TextOr(p, ".departure-time", NotFound),
     Arrival_Time |-> TextOr(p, ".arrival-time", NotFound),
     Stop_Type |-> TextOr(p, ".flight-stops", NotFound),
     Cabin_Baggage |-> BaggageOr(p, ".checkin .checkin-value", " Cabin", NotFound),
     Checkin_Baggage |-> BaggageOr(p, ".cabin .cabin-value", " Check-in", NotFound)]

\* the standalone passenger dict: Flight_Status is 'Unknown' without a status element
SA_PassengerOf(section) ==
    [Name |-> Strip(section.name),
     Gender |-> IF Len(section.p_info) >= 2 THEN Strip(section.p_info[1]) ELSE "Unknown",
     Age_Category |-> IF Len(section.p_info) >= 2 THEN Strip(section.p_info[2]) ELSE "Adult",
     Seat_Number |-> SeatOf(section),
     Flight_Status |-> IF section.status # Absent THEN Strip(section.status) ELSE "Unknown"]

RECURSIVE SA_PassengerLoop(_)
SA_PassengerLoop(sections) ==
    IF sections = <<>> THEN <<>>
    ELSE LET s == Head(sections)
         IN  (IF s.name = Absent THEN <<>>
              ELSE IF SA_PassengerOf(s).Name = "" THEN <<>>
              ELSE <<SA_PassengerOf(s)>>)
             \o SA_PassengerLoop(Tail(sections))

SA_extract_passenger_details(p) == SA_PassengerLoop(p.sections)

\* the standalone if passengers / else: without passengers the flight details get
\* Passenger_Count = 0 and nothing else
SA_Combine(flight, pax) ==
    IF pax # <<>>
    THEN [k \in 1..Len(pax) |-> Merge(Merge(flight, pax[k]), [Passenger_Count |-> Len(pax)])]
    ELSE <<Merge(flight, [Passenger_Count |-> 0])>>

SA_columns ==
    << "BMS_Code", "PNR", "Last_Name", "Source", "Destination",
       "Departure_Date", "Flight_Number", "Departure_Time", "Arrival_Time",
       "Stop_Type", "Cabin_Baggage", "Checkin_Baggage", "Passenger_Count",
       "Name", "Gender", "Age_Category", "Seat_Number", "Flight_Status" >>

\* existing_columns = [col for col in columns if col in df.columns]
SA_existing_columns(data) == SelectSeq(SA_columns, LAMBDA c : c \in FrameColumns(data))

\* the table the standalone export_to_csv writes: df[existing_columns]
SA_ExportTable(data) ==
    [header |-> SA_existing_columns(data),
     rows |-> [k \in 1..Len(data) |->
                 [c \in 1..Len(SA_existing_columns(data)) |->
                     CellOf(data, k, SA_existing_columns(data)[c])]]]

\* run_scraper after setup_driver and load_csv_data returned a non-empty list
InitStandalone ==
    /\ pc = "sa_loop"
    /\ driver = "open"
    /\ csv_file \in RunTables
    /\ ~load_csv_data(csv_file).raised
    /\ load_csv_data(csv_file).bookings # <<>>
    /\ bookings = load_csv_data(csv_file).bookings
    /\ i = 0
    /\ reqState = <<>>
    /\ page = NoPage
    /\ pnr_input = None
    /\ lastname_input = None
    /\ button = None
    /\ broke = NoBroke
    /\ fields = NoFields
    /\ exc = None
    /\ flight_details = NoFlight
    /\ passengers = <<>>
    /\ scraped_data = <<>>
    /\ origin = <<>>
    /\ processed = <<>>
    /\ delays = <<>>
    /\ exports = <<>>
    /\ export_calls = 0
    /\ outcome = "running"
    /\ time_sleep = "original"
    /\ delay_seconds = None
    /\ progress_callback = None
    /\ processed_count = 0
    /\ total_bookings = 0
    /\ waits = <<>>

SA_LoopNext ==
    /\ pc = "sa_loop"
    /\ i < Len(bookings)
    /\ i' = i + 1
    /\ processed' = Append(processed, i + 1)
    /\ pc' = "sa_submit"
    /\ UNCHANGED <<driver, csv_file, bookings, reqState, page, formVars, exc, scrapeVars, dataVars,
                   delays, exports, export_calls, outcome, frontVars, waits>>

\* navigate_to_edit_booking, fill_booking_details, click_get_itinerary: the site
\* answers with a page, or one of the three raises and the except clause logs and
\* returns False
SA_Submit ==
    /\ pc = "sa_submit"
    /\ \/ /\ \E p \in RunPages : page' = p
          /\ pc' = "sa_check"
       \/ /\ \E p \in {page, LookupPage} : page' = p
          /\ pc' = "sa_returned"
    /\ UNCHANGED <<reqState, formVars, exc, scrapeVars, dataVars, runVars>>

\* if self.check_booking_loaded(): ... else: log, return False
SA_CheckLoaded ==
    /\ pc = "sa_check"
    /\ pc' = IF SA_check_booking_loaded(page) THEN "sa_extract" ELSE "sa_returned"
    /\ UNCHANGED <<reqState, page, formVars, exc, scrapeVars, dataVars, runVars>>

SA_Extract ==
    /\ pc = "sa_extract"
    /\ flight_details' =
         SA_extract_flight_details(page, Request.pnr, Request.lastname, Request.bms_code)
    /\ passengers' = SA_extract_passenger_details(page)
    /\ pc' = "sa_combine"
    /\ UNCHANGED <<reqState, page, formVars, exc, dataVars, runVars>>

SA_CombineStep ==
    /\ pc = "sa_combine"
    /\ scraped_data' = scraped_data \o SA_Combine(flight_details, passengers)
    /\ origin' = origin \o [k \in 1..Len(SA_Combine(flight_details, passengers)) |-> i]
    /\ flight_details' = NoFlight
    /\ passengers' = <<>>
    /\ pc' = "sa_returned"
    /\ UNCHANGED <<reqState, page, formVars, exc, runVars>>

SA_Delay ==
    /\ pc = "sa_returned"
    /\ i < Len(bookings)
    /\ delays' = Append(delays, i)
    /\ pc' = "sa_loop"
    /\ UNCHANGED <<driver, csv_file, bookings, i, reqState, page, formVars, exc, scrapeVars, dataVars,
                   processed, exports, export_calls, outcome, frontVars, waits>>

SA_LoopEnd ==
    /\ pc = "sa_returned"
    /\ i = Len(bookings)
    /\ pc' = "sa_export"
    /\ UNCHANGED <<reqState, page, formVars, exc, scrapeVars, dataVars, runVars>>

\* if self.scraped_data: self.export_to_csv(); a write that raises goes to
\* run_scraper's except clause
SA_Export ==
    /\ pc = "sa_export"
    /\ \/ /\ scraped_data = <<>>
          /\ pc' = "sa_finally"
          /\ UNCHANGED <<exports, export_calls, exc>>
       \/ /\ scraped_data # <<>>
          /\ export_calls' = export_calls + 1
          /\ exports' = Append(exports, SA_ExportTable(scraped_data))
          /\ pc' = "sa_finally"
          /\ exc' = exc
       \/ /\ scraped_data # <<>>
          /\ export_calls' = export_calls + 1
          /\ \E e \in ExportErrors : exc' = e
          /\ pc' = "sa_fatal"
          /\ UNCHANGED exports
    /\ UNCHANGED <<driver, csv_file, bookings, i, reqState, page, formVars, scrapeVars, dataVars,
                   processed, delays, outcome, frontVars, waits>>

\* except Exception as e: the standalone clause prints and logs the error, no more
SA_Fatal ==
    /\ pc = "sa_fatal"
    /\ exc' = None
    /\ pc' = "sa_finally"
    /\ UNCHANGED <<driver, csv_file, bookings, i, reqState, page, formVars, scrapeVars, dataVars,
                   processed, delays, exports, export_calls, outcome, frontVars, waits>>

SA_Finally ==
    /\ pc = "sa_finally"
    /\ driver' = "closed"
    /\ page' = NoPage
    /\ outcome' = "returned"
    /\ pc' = "sa_done"
    /\ UNCHANGED <<csv_file, bookings, i, reqState, formVars, exc, scrapeVars, dataVars,
                   processed, delays, exports, export_calls, frontVars, waits>>

NextStandalone ==
    \/ SA_LoopNext
    \/ SA_Submit
    \/ SA_CheckLoaded
    \/ SA_Extract
    \/ SA_CombineStep
    \/ SA_Delay
    \/ SA_LoopEnd
    \/ SA_Export
    \/ SA_Fatal
    \/ SA_Finally

SpecStandalone == InitStandalone /\ [][NextStandalone]_vars

\* ------------------------------------------------- load_csv_data on its own

\* rows as pandas hands them over: a cell is a string that is not one of pandas'
\* missing-value spellings, or the missing value
LoadFileRows ==
    { <<"ABC123", "SHARMA", "BMS1">>,
      <<" XYZ789 ", "Rao", NaN>>,
      <<NaN, "Kumar", "BMS3">>,
      <<"PQR456", NaN, "BMS4">>,
      <<"   ", "Singh", "BMS5">>,
      <<"LMN321", " nan ", "BMS6">>,
      <<"DEF654", "Iyer", "  ">>,
      <<"Nan", "Das", " B8 ">> }

LoadTables ==
    {[columns |-> 3, rows |-> rs] : rs \in SeqUpTo(LoadFileRows, MaxRows)}
    \cup {[columns |-> 2, rows |-> << <<"ABC123", "SHARMA">> >>],
          [columns |-> 1, rows |-> <<>>]}

\* run_scraper at the call of load_csv_data, for any input file
InitLoad ==
    /\ pc = "load_csv"
    /\ driver = "open"
    /\ csv_file \in LoadTables
    /\ bookings = <<>>
    /\ i = 0
    /\ reqState = <<>>
    /\ page = NoPage
    /\ pnr_input = None
    /\ lastname_input = None
    /\ button = None
    /\ broke = NoBroke
    /\ fields = NoFields
    /\ exc = None
    /\ flight_details = NoFlight
    /\ passengers = <<>>
    /\ scraped_data = <<>>
    /\ origin = <<>>
    /\ processed = <<>>
    /\ delays = <<>>
    /\ exports = <<>>
    /\ export_calls = 0
    /\ outcome = "running"
    /\ time_sleep = "original"
    /\ delay_seconds = None
    /\ progress_callback = None
    /\ processed_count = 0
    /\ total_bookings = 0
    /\ waits = <<>>

NextLoad == LoadCsv

SpecLoad == InitLoad /\ [][NextLoad]_vars

\* ------------------------------------------- the two extractors on their own

\* the span texts of the route container of a page that has one
ExtractRoutes ==
    { <<>>, <<"DEL">>, <<"DEL", "BOM">>, <<" BLR ", "HYD ">>, <<"DEL", "BOM", "6E 2045">> }

\* the text of the seat element of a passenger section; Absent when it has none
ExtractSeatTexts ==
    { Absent, "", "Seat 16A, Window", "Seat not selected", "7C", "16A", "Row 123A", "16a",
      "A16A", "12AB", "Seats 3B and 14C", "  9F  ", "Seat:16A/Window", "1A2B",
      "Gate 5 Seat 22F" }

\* passenger sections: with a name, a second name, no name element or a blank
\* name; with the primary status chip (with and without text) or without it, and
\* with several answers of the alternative status selectors
ExtractSections ==
    { [SectionA EXCEPT !.name = n, !.status = st[1], !.alt = st[2]] :
        n \in {" Asha Rao ", "Ravi Rao", Absent, "  "},
        st \in { <<"No Show", NoAlt>>,
                 <<"", [NoAlt EXCEPT ![".status-chip"] = "Flown"]>>,
                 <<Absent, NoAlt>>,
                 <<Absent, [NoAlt EXCEPT ![".status-chip"] = "Flown"]>>,
                 <<Absent, [NoAlt EXCEPT ![".flight-status"] = "  ",
                                         !["[class*='chip']"] = " Cancelled "]>>,
                 <<Absent, [NoAlt EXCEPT ![".booking-status"] = "Booked",
                                         ![".status-chip"] = "Flown"]>> } }

MaxSections == 2

\* an itinerary page: flight elements, route spans, passenger sections
ExtractPage(e, r, secs) ==
    [NoPage EXCEPT !.url = "https://www.goindigo.in/View-Itinerary.html",
                   !.el = e,
                   !.route = r,
                   !.sections = secs]


\* scrape_booking_details of one request, at the moment check_booking_loaded has
\* accepted the page: pages with every seat text and route, with and without a
\* route container; pages with every run of passenger sections; pages with every
\* subset of the flight elements
InitExtract ==
    /\ pc = "extract_flight"
    /\ driver = "open"
    /\ bookings = <<[pnr |-> "ABC123", lastname |-> "SHARMA", bms_code |-> "BMS1"]>>
    /\ csv_file = TableOf(bookings)
    /\ i = 1
    /\ reqState = <<"LOADED">>
    /\ \/ \E t \in ExtractSeatTexts, r \in ExtractRoutes :
             page = ExtractPage(FullEl, r, <<[SectionA EXCEPT !.seat = t]>>)
       \/ \E t \in ExtractSeatTexts :
             page = ExtractPage(FullEl, Absent, <<[SectionA EXCEPT !.seat = t]>>)
       \/ \E secs \in SeqUpTo(ExtractSections, MaxSections) :
             page = ExtractPage(FullEl, <<"DEL", "BOM">>, secs)
       \/ \E present \in SUBSET FlightSelectors, r \in ExtractRoutes :
             page = ExtractPage([x \in FlightSelectors |->
                                   IF x \in present THEN FullEl[x] ELSE Absent],
                                r, <<SectionA>>)
    /\ pnr_input = None
    /\ lastname_input = None
    /\ button = None
    /\ broke = NoBroke
    /\ fields = NoFields
    /\ exc = None
    /\ flight_details = NoFlight
    /\ passengers = <<>>
    /\ scraped_data = <<>>
    /\ origin = <<>>
    /\ processed = <<1>>
    /\ delays = <<>>
    /\ exports = <<>>
    /\ export_calls = 0
    /\ outcome = "running"
    /\ time_sleep = "original"
    /\ delay_seconds = None
    /\ progress_callback = None
    /\ processed_count = 0
    /\ total_bookings = 0
    /\ waits = <<>>

NextExtract ==
    \/ ExtractFlight
    \/ ExtractPassengers

SpecExtract == InitExtract /\ [][NextExtract]_vars

\* ------------------------------------------------------ the front-end's run

\* values of the slider 'Delay between bookings' (1 to 10 seconds, 2 by default)
DelayChoices == {1, 2, 10}

\* the page after a file of at least three columns was uploaded: nothing runs yet
InitFrontEnd ==
    /\ pc = "ui_idle"
    /\ driver = "none"
    /\ csv_file \in {[columns |-> 3, rows |-> rs] :
                        rs \in { << <<"ABC123", "SHARMA", "BMS1">> >>,
                                 << <<NaN, "Kumar", "BMS3">> >>,
                                 << <<"ABC123", "SHARMA", "BMS1">>, <<" XYZ789 ", "Rao", NaN>> >>,
                                 << <<"ABC123", "SHARMA", "BMS1">>, <<NaN, "Kumar", "BMS3">>,
                                    <<" XYZ789 ", "Rao", NaN>> >> }}
    /\ bookings = <<>>
    /\ i = 0
    /\ reqState = <<>>
    /\ page = NoPage
    /\ pnr_input = None
    /\ lastname_input = None
    /\ button = None
    /\ broke = NoBroke
    /\ fields = NoFields
    /\ exc = None
    /\ flight_details = NoFlight
    /\ passengers = <<>>
    /\ scraped_data = <<>>
    /\ origin = <<>>
    /\ processed = <<>>
    /\ delays = <<>>
    /\ exports = <<>>
    /\ export_calls = 0
    /\ outcome = "running"
    /\ time_sleep = "original"
    /\ delay_seconds \in DelayChoices
    /\ progress_callback = None
    /\ processed_count = 0
    /\ total_bookings = 0
    /\ waits = <<>>

\* the button 'Start Enhanced Scraping' up to the call of run_scraper: the rows of
\* the uploaded table are counted, the scraper gets its progress callback and
\* time.sleep is replaced by custom_sleep
StartScraping ==
    /\ pc = "ui_idle"
    /\ total_bookings' = Len(csv_file.rows)
    /\ processed_count' = 0
    /\ progress_callback' = "update_progress"
    /\ time_sleep' = "custom"
    /\ pc' = "setup"
    /\ UNCHANGED <<driver, csv_file, bookings, i, reqState, page, formVars, exc, scrapeVars,
                   dataVars, processed, delays, exports, export_calls, outcome,
                   delay_seconds, waits>>

\* run_scraper returned: time.sleep = original_sleep, then the results are shown
RestoreSleep ==
    /\ pc = "done"
    /\ outcome = "returned"
    /\ time_sleep' = "original"
    /\ pc' = "ui_done"
    /\ UNCHANGED <<driver, csv_file, bookings, i, reqState, page, formVars, exc, scrapeVars,
                   dataVars, processed, delays, exports, export_calls, outcome,
                   delay_seconds, progress_callback, processed_count, total_bookings, waits>>

\* run_scraper raised: the handler's except clause shows the error, and its finally
\* clause clears the in-progress flag and removes the temporary input file
HandlerExcept ==
    /\ pc = "done"
    /\ outcome = "raised"
    /\ pc' = "ui_done"
    /\ UNCHANGED <<driver, csv_file, bookings, i, reqState, page, formVars, exc, scrapeVars,
                   dataVars, processed, delays, exports, export_calls, outcome,
                   frontVars, waits>>

NextFrontEnd ==
    \/ StartScraping
    \/ SetupDriver
    \/ SetupDriverFails
    \/ LoadCsv
    \/ NextLoop
    \/ RestoreSleep
    \/ HandlerExcept

SpecFrontEnd == InitFrontEnd /\ [][NextFrontEnd]_vars

\* ------------------------------------------------------------------ claims

\* positions of run_scraper at which no call of scrape_booking_details is open
OutsideScrape == {"setup", "load_csv", "loop", "returned", "export", "fatal", "finally", "done"}

\* the requests whose call of scrape_booking_details has returned
Returned == {j \in Range(processed) : j < i \/ pc \in OutsideScrape}

\* the positions in scraped_data of the records request j appended
RecordsOf(j) == {k \in 1..Len(scraped_data) : origin[k] = j}

HasRecord(name) == \E k \in 1..Len(scraped_data) : scraped_data[k].Name = name

\* C1: after any sequence of calls of scrape_booking_details, whatever their outcomes,
\* scraped_data holds at least as many records as requests were processed, and every
\* processed request contributed at least one of them.
C1_RecordPerRequest ==
    /\ Len(scraped_data) >= Cardinality(Returned)
    /\ \A j \in Returned : RecordsOf(j) # {}

\* two requests returned, one through the except clause and one through the
\* page-not-loaded branch
C1_Witness ==
    /\ Cardinality(Returned) = 2
    /\ HasRecord("Error")
    /\ HasRecord("Failed to load")

RequestTransitions ==
    { <<"PENDING", "START">>, <<"START", "NAVIGATED">>, <<"NAVIGATED", "SUBMITTED">>,
      <<"SUBMITTED", "LOADED">>, <<"LOADED", "EXTRACTED">>, <<"EXTRACTED", "RECORDED">>,
      <<"SUBMITTED", "LOAD_FAILED">>, <<"LOAD_FAILED", "RECORDED">>,
      <<"START", "RECORDED">>, <<"NAVIGATED", "RECORDED">>, <<"SUBMITTED", "RECORDED">>,
      <<"LOADED", "RECORDED">> }

\* the requests that were started and are not RECORDED; a request never returns to
\* PENDING, so when this set empties every request that was in it is RECORDED
Unrecorded == {j \in DOMAIN reqState : reqState[j] \notin {"PENDING", "RECORDED"}}

LoopOver == pc \in {"export", "finally", "done"}

\* C2: a request moves START -> NAVIGATED -> SUBMITTED -> (LOADED -> EXTRACTED |
\* LOAD_FAILED) -> RECORDED, or from an intermediate state straight to RECORDED on the
\* error path; every started request eventually reaches RECORDED; and when the run loop
\* has ended no request is in another state than RECORDED.
C2_RequestStateMachine ==
    /\ [][\A j \in DOMAIN reqState \cap DOMAIN reqState' :
            reqState'[j] # reqState[j] => <<reqState[j], reqState'[j]>> \in RequestTransitions]_vars
    /\ (Unrecorded # {}) ~> (Unrecorded = {})
    /\ [](LoopOver => \A j \in DOMAIN reqState : reqState[j] = "RECORDED")

\* the run is over with two requests, one recorded through the error path, one
\* through LOAD_FAILED
C2_Witness ==
    /\ pc = "done"
    /\ Len(bookings) = 2
    /\ \A j \in DOMAIN reqState : reqState[j] = "RECORDED"
    /\ scraped_data[1].Name = "Error"
    /\ scraped_data[Len(scraped_data)].Name = "Failed to load"

\* C3: a failure in a step of one request never stops the run loop: the requests the
\* loader returned are handed to scrape_booking_details exactly once each, in input
\* order, whatever the earlier outcomes.
C3_EveryRequestInOrder ==
    /\ Len(processed) <= Len(bookings)
    /\ \A k \in 1..Len(processed) : processed[k] = k
    /\ (pc \in {"export", "fatal", "finally", "done"} => Len(processed) = Len(bookings))

\* the first of two requests ended in the except clause, the second was still
\* processed, and the run is over
C3_Witness ==
    /\ pc = "done"
    /\ processed = <<1, 2>>
    /\ scraped_data[1].Name = "Error"
    /\ origin[1] = 1

\* C4: fill_booking_details and click_get_itinerary raise NoSuchElementException
\* whenever no candidate of the selector chain passes the acceptance check, so the
\* code after a chain runs only with an element that passed it.
C4_RaisesWhenNoneAccepted ==
    /\ (pc = "find_lastname" => broke.pnr)
    /\ (pc = "type_form" => broke.pnr /\ broke.lastname)
    /\ (pc = "do_click" => broke.button)

\* check_booking_loaded has returned
Checked == pc \in {"extract_flight", "load_failed"}

\* an element whose text matches an error pattern is displayed on the page
VisibleError(p) ==
    \E sel \in Range(error_selectors) : \E k \in 1..Len(p.err[sel]) : p.err[sel][k]

IndicatorShown(p) == \E ind \in Range(success_indicators) : p.ind[ind] = "shown"

IndicatorLocated(p) == \E ind \in Range(success_indicators) : p.ind[ind] # "absent"

\* the addresses with 'itinerary' or 'booking-details' in them, in any case
ItineraryUrls ==
    { "https://www.goindigo.in/View-Itinerary.html",
      "https://www.goindigo.in/Booking-Details?pnr=ABC123" }

\* C5: on a page that shows a text matching an error pattern ('Invalid', 'not found',
\* 'incorrect', 'error'), check_booking_loaded returns failure, whatever content
\* regions are displayed and whatever the address is.
C5_VisibleErrorFails ==
    (Checked /\ VisibleError(page)) => pc = "load_failed"

\* C6 as stated: without a visible error text, the check succeeds exactly when a
\* content region is present on the page or the address is an itinerary address.
C6_LocatedMeansLoaded ==
    (Checked /\ ~VisibleError(page)) =>
        (pc = "extract_flight"
            <=> (IndicatorLocated(page) \/ (~page.url_raises /\ page.url \in ItineraryUrls)))

\* C6: check_booking_loaded looks at the error texts, then the content regions, then
\* the address: an error pattern whose first match is displayed gives failure; without
\* a visible error text the check succeeds exactly when the first element of some
\* content region is displayed or, failing that, the address contains 'itinerary' or
\* 'booking-details' in any case; an exception while reading the address gives failure.
C6_SignalOrder ==
    Checked =>
        /\ (\E sel \in Range(error_selectors) : page.err[sel] # <<>> /\ page.err[sel][1])
              => pc = "load_failed"
        /\ ~VisibleError(page) =>
              (pc = "extract_flight"
                 <=> (IndicatorShown(page) \/ (~page.url_raises /\ page.url \in ItineraryUrls)))
        /\ (page.url_raises /\ ~IndicatorShown(page)) => pc = "load_failed"

\* a page without error text whose only content region is not displayed was accepted
\* by its address
C6_Witness ==
    /\ Checked
    /\ ~VisibleError(page)
    /\ IndicatorLocated(page)
    /\ ~IndicatorShown(page)
    /\ page.url = "https://www.goindigo.in/View-Itinerary.html"
    /\ pc = "extract_flight"

ProvenanceFields == {"BMS_Code", "PNR", "Last_Name"}

ScrapedFlightFields ==
    { "Source", "Destination", "Departure_Date", "Flight_Number", "Departure_Time",
      "Arrival_Time", "Stop_Type", "Cabin_Baggage", "Checkin_Baggage" }

PassengerFields == {"Name", "Gender", "Age_Category", "Seat_Number", "Flight_Status"}

RecordFields ==
    ProvenanceFields \cup ScrapedFlightFields \cup PassengerFields \cup {"Passenger_Count"}

\* the record a step appended, when it appended exactly one
Appended == scraped_data'[Len(scraped_data) + 1]

AppendedOne ==
    /\ Len(scraped_data') = Len(scraped_data) + 1
    /\ SubSeq(scraped_data', 1, Len(scraped_data)) = scraped_data

HasProvenance(r) ==
    /\ r.PNR = Request.pnr
    /\ r.Last_Name = Request.lastname
    /\ r.BMS_Code = Request.bms_code

\* C7: on a loaded page with k > 0 extracted passengers, scrape_booking_details appends
\* exactly k records, one per passenger in extraction order, each with every flight
\* field as extracted, that passenger's five fields, and Passenger_Count = k.
C7_RecordPerPassenger ==
    [][(pc = "combine" /\ passengers # <<>>) =>
         /\ Len(scraped_data') = Len(scraped_data) + Len(passengers)
         /\ SubSeq(scraped_data', 1, Len(scraped_data)) = scraped_data
         /\ \A m \in 1..Len(passengers) :
               LET r == scraped_data'[Len(scraped_data) + m]
               IN  /\ DOMAIN r = RecordFields
                   /\ \A f \in ProvenanceFields \cup ScrapedFlightFields :
                         r[f] = flight_details[f]
                   /\ \A f \in PassengerFields : r[f] = passengers[m][f]
                   /\ r.Passenger_Count = Len(passengers)]_vars

\* a booking with two passengers was recorded as two records in page order, both
\* counting two
C7_Witness ==
    /\ pc = "returned"
    /\ Len(scraped_data) = 2
    /\ scraped_data[1].Name = "Ravi Rao"
    /\ scraped_data[2].Name = "Asha Rao"
    /\ scraped_data[1].Passenger_Count = 2
    /\ scraped_data[2].Passenger_Count = 2
    /\ scraped_data[1].Source = scraped_data[2].Source

\* C9 as stated: after a failed load check one record is appended whose flight and
\* passenger fields all carry 'Failed to load'.
C9_AllFailedToLoad ==
    [][pc = "load_failed" =>
         /\ AppendedOne
         /\ HasProvenance(Appended)
         /\ \A f \in ScrapedFlightFields \cup PassengerFields :
               Appended[f] = "Failed to load"]_vars

\* C9: after a failed load check scrape_booking_details appends exactly one record:
\* the request's PNR, surname and BMS code, 'Failed to load' in the nine flight fields
\* and in Name, 'Unknown' in Gender and Age_Category, 'Not found' in Seat_Number,
\* 'Failed' in Flight_Status and Passenger_Count 0; neither extraction ran for the
\* request.
C9_LoadFailureRecord ==
    /\ [](pc = "load_failed" => flight_details = NoFlight /\ passengers = <<>>)
    /\ [][pc = "load_failed" =>
            /\ AppendedOne
            /\ DOMAIN Appended = RecordFields
            /\ HasProvenance(Appended)
            /\ \A f \in ScrapedFlightFields \cup {"Name"} : Appended[f] = "Failed to load"
            /\ Appended.Gender = "Unknown"
            /\ Appended.Age_Category = "Unknown"
            /\ Appended.Seat_Number = "Not found"
            /\ Appended.Flight_Status = "Failed"
            /\ Appended.Passenger_Count = 0
            /\ pc' = "returned"
            /\ flight_details' = NoFlight
            /\ passengers' = <<>>]_vars

\* the second request got a refused page that held an itinerary, and its only record
\* is the load-failure record
C9_Witness ==
    /\ pc = "returned"
    /\ i = 2
    /\ page.route # Absent
    /\ Cardinality(RecordsOf(2)) = 1
    /\ scraped_data[Len(scraped_data)].Flight_Status = "Failed"
    /\ scraped_data[Len(scraped_data)].PNR = bookings[2].pnr

\* C10 as stated: the except clause appends one record with 'Error: ' and the first
\* 50 characters of the message in Source and 'Error' in every other scraped field.
C10_AllError ==
    [][pc = "except" =>
         /\ AppendedOne
         /\ Appended.Source = "Error: " \o SubSeq(exc, 1, IF Len(exc) < 50 THEN Len(exc) ELSE 50)
         /\ \A f \in (ScrapedFlightFields \ {"Source"}) \cup PassengerFields :
               Appended[f] = "Error"]_vars

\* C10: when a step of a request raises, scrape_booking_details appends exactly one
\* record for it and no other: the request's PNR, surname and BMS code, Source =
\* 'Error: ' followed by the first 50 characters of the message, 'Error' in the other
\* eight flight fields and in Name, Seat_Number and Flight_Status, 'Unknown' in Gender
\* and Age_Category, and Passenger_Count 0.
C10_ErrorRecord ==
    /\ [](pc = "except" => RecordsOf(i) = {})
    /\ [][pc = "except" =>
            /\ AppendedOne
            /\ origin' = Append(origin, i)
            /\ DOMAIN Appended = RecordFields
            /\ HasProvenance(Appended)
            /\ Appended.Source =
                  "Error: " \o SubSeq(exc, 1, IF Len(exc) < 50 THEN Len(exc) ELSE 50)
            /\ \A f \in (ScrapedFlightFields \ {"Source"})
                          \cup {"Name", "Seat_Number", "Flight_Status"} :
                  Appended[f] = "Error"
            /\ Appended.Gender = "Unknown"
            /\ Appended.Age_Category = "Unknown"
            /\ Appended.Passenger_Count = 0]_vars

\* a request ended with a message longer than the cut, and its record holds the
\* first 50 characters of it
C10_Witness ==
    /\ pc = "returned"
    /\ Cardinality(RecordsOf(i)) = 1
    /\ scraped_data[Len(scraped_data)].Source =
          "Error: Message: element not interactable: element has zer"
    /\ scraped_data[Len(scraped_data)].Gender = "Unknown"

\* C8: on a loaded page with no extracted passenger, scrape_booking_details appends
\* exactly one record: Passenger_Count = 0, the flight fields as extracted, and a
\* placeholder in each of Name, Gender, Age_Category, Seat_Number and Flight_Status.
C8_PlaceholderRecord ==
    [][(pc \in {"combine", "sa_combine"} /\ passengers = <<>>) =>
         /\ AppendedOne
         /\ Appended.Passenger_Count = 0
         /\ \A f \in ProvenanceFields \cup ScrapedFlightFields :
               Appended[f] = flight_details[f]
         /\ PassengerFields \subseteq DOMAIN Appended
         /\ Appended.Name = "No passenger details found"
         /\ Appended.Gender = "Unknown"
         /\ Appended.Age_Category = "Unknown"
         /\ Appended.Seat_Number = "Not found"
         /\ Appended.Flight_Status = "Check manually"]_vars

DocumentedColumns ==
    << "BMS_Code", "PNR", "Last_Name", "Name", "Flight_Status", "Seat_Number",
       "Source", "Destination", "Departure_Date", "Flight_Number", "Departure_Time",
       "Arrival_Time", "Stop_Type", "Cabin_Baggage", "Checkin_Baggage",
       "Passenger_Count", "Gender", "Age_Category" >>

\* C11: every table written has the 18 documented columns in the documented order;
\* a documented column that no accumulated record has is filled with 'Not found', and
\* a value a record has is written unchanged.
C11_DocumentedColumns ==
    \A k \in 1..Len(exports) :
        /\ exports[k].header = DocumentedColumns
        /\ Len(exports[k].rows) = Len(scraped_data)
        /\ \A r \in 1..Len(scraped_data), c \in 1..Len(DocumentedColumns) :
              LET col == DocumentedColumns[c]
              IN  /\ col \in DOMAIN scraped_data[r]
                       => exports[k].rows[r][c] = scraped_data[r][col]
                  /\ (\A q \in 1..Len(scraped_data) : col \notin DOMAIN scraped_data[q])
                       => exports[k].rows[r][c] = "Not found"

\* what trimming leaves of each cell of the input rows
Trimmed(cell) ==
    CASE cell = " XYZ789 " -> "XYZ789"
      [] cell = "   " -> ""
      [] cell = " nan " -> "nan"
      [] cell = "  " -> ""
      [] cell = " B8 " -> "B8"
      [] cell = " BLR " -> "BLR"
      [] cell = "HYD " -> "HYD"
      [] cell = " Asha Rao " -> "Asha Rao"
      [] cell = " Cancelled " -> "Cancelled"
      [] OTHER -> cell

\* the missing value, and the spellings of its marker
MissingMarkers == {NaN, "nan", "Nan", "NaN", "NAN", "nAn", "naN", "nAN", "NAn"}

Usable(cell) == cell \notin MissingMarkers /\ Trimmed(cell) \notin MissingMarkers \cup {""}

\* C12: for a table of at least 3 columns load_csv_data returns, in row order, one
\* request for each row whose reference and surname are non-empty and not the
\* missing-value marker after trimming, and none for another row; a row whose
\* secondary code is empty or missing is kept with the empty string as its code.
C12_LoaderKeepsUsableRows ==
    [][(pc = "load_csv" /\ csv_file.columns >= 3) =>
         LET kept == SelectSeq(csv_file.rows, LAMBDA row : Usable(row[1]) /\ Usable(row[2]))
         IN  bookings' =
               [k \in 1..Len(kept) |->
                  [pnr |-> Trimmed(kept[k][1]),
                   lastname |-> Trimmed(kept[k][2]),
                   bms_code |-> IF kept[k][3] = NaN THEN "" ELSE Trimmed(kept[k][3])]]]_vars

\* of two rows the first had a marker for a surname and was dropped, the second had
\* no secondary code and was kept
C12_Witness ==
    /\ pc = "loop"
    /\ Len(csv_file.rows) = 2
    /\ csv_file.rows[1][2] = " nan "
    /\ csv_file.rows[2][3] = NaN
    /\ bookings = <<[pnr |-> "XYZ789", lastname |-> "Rao", bms_code |-> ""]>>

NarrowFile == csv_file.columns < 3

\* C13: a table of fewer than 3 columns makes load_csv_data raise its validation
\* error, and the error is fatal to the run: the run goes from the load to the
\* except clause of run_scraper and from there to its end, no request is processed,
\* no record is appended and nothing is written.
C13_NarrowFileIsFatal ==
    /\ [](NarrowFile =>
            /\ pc \in {"setup", "load_csv", "fatal", "finally", "done"}
            /\ bookings = <<>> /\ i = 0
            /\ processed = <<>> /\ scraped_data = <<>>
            /\ exports = <<>> /\ export_calls = 0)
    /\ [][(pc = "load_csv" /\ NarrowFile) =>
            /\ pc' = "fatal"
            /\ exc' = "CSV must have at least 3 columns (PNR, Last Name, and BMS Code)"]_vars

\* a run on a narrow file has ended after the session was opened
C13_Witness ==
    /\ NarrowFile
    /\ pc = "done"
    /\ driver = "closed"
    /\ processed = <<>>
    /\ scraped_data = <<>>

\* C14: on every way out of run_scraper (normal end, the early return for an empty
\* list, a fatal error, an error raised by the export of the except clause) a session
\* that was opened has been closed with driver.quit() when the run is over.
C14_SessionReleased ==
    /\ [](outcome # "running" => pc \in {"done", "sa_done"} /\ driver # "open")
    /\ [](pc \in {"done", "sa_done"} => outcome # "running")
    /\ [][driver = "open" /\ outcome' # outcome => driver' = "closed"]_vars

\* the run left run_scraper with an exception after its session was closed
C14_Witness ==
    /\ pc = "done"
    /\ outcome = "raised"
    /\ driver = "closed"
    /\ scraped_data # <<>>

\* C15: when run_scraper's except clause is entered while scraped_data is not
\* empty, it calls export_to_csv on what was gathered.
C15_FatalStillExports ==
    [][(pc \in {"fatal", "sa_fatal"} /\ scraped_data # <<>>) =>
         export_calls' = export_calls + 1]_vars

AfterLoop == {"export", "fatal", "finally", "done"}

\* C16: within a run the file is written only once the request loop is over: while
\* requests are processed no write has been attempted, a run that processed at
\* least one request attempts one write when the loop has ended, the except clause
\* attempts at most one more, and a run never attempts more than two.
C16_WriteAfterLoop ==
    /\ [](pc \notin AfterLoop => export_calls = 0 /\ exports = <<>>)
    /\ [](export_calls <= 2 /\ Len(exports) <= export_calls)
    /\ []((pc = "done" /\ processed # <<>>) => export_calls >= 1)
    /\ [][export_calls' # export_calls =>
            /\ export_calls' = export_calls + 1
            /\ scraped_data # <<>>
            /\ i = Len(bookings)
            /\ \A r \in 1..Len(bookings) : reqState[r] = "RECORDED"
            /\ \/ pc = "export" /\ export_calls = 0
               \/ pc = "fatal" /\ export_calls = 1 /\ exports = <<>>]_vars

\* the write after the loop failed and the except clause wrote the file
C16_Witness ==
    /\ pc = "done"
    /\ Len(processed) = 2
    /\ export_calls = 2
    /\ Len(exports) = 1

\* C17: requests are processed one at a time: at most one request is in flight, and
\* it is the current one; when navigation for a request begins every earlier request
\* is recorded and all records so far belong to earlier requests; records are only
\* ever added at the end, for the current request, so the accumulator is the
\* concatenation of the requests' groups of records in input order.
C17_OneRequestAtATime ==
    /\ [](Unrecorded \subseteq {i})
    /\ [](/\ Len(origin) = Len(scraped_data)
          /\ \A k \in 1..Len(origin) :
                /\ origin[k] \in 1..i
                /\ scraped_data[k].PNR = bookings[origin[k]].pnr
                /\ scraped_data[k].Last_Name = bookings[origin[k]].lastname
                /\ k < Len(origin) => origin[k] <= origin[k + 1])
    /\ [](pc = "navigate" =>
            /\ \A j \in 1..(i - 1) : reqState[j] = "RECORDED" /\ RecordsOf(j) # {}
            /\ \A k \in 1..Len(origin) : origin[k] < i)
    /\ [][scraped_data' # scraped_data =>
            /\ Len(scraped_data') > Len(scraped_data)
            /\ SubSeq(scraped_data', 1, Len(scraped_data)) = scraped_data
            /\ SubSeq(origin', 1, Len(origin)) = origin
            /\ \A k \in (Len(origin) + 1)..Len(origin') : origin'[k] = i
            /\ i' = i]_vars

\* navigation for the second request is about to begin and the two records of the
\* first are in the accumulator
C17_Witness ==
    /\ pc = "navigate"
    /\ i = 2
    /\ origin = <<1, 1>>
    /\ reqState = <<"RECORDED", "START">>

\* C18: between requests a delay is inserted: the delays of a run are those after
\* request 1, 2, ... in turn, each taken when its request is recorded and before the
\* next request is started, never after the last request; a run over n >= 1
\* requests has taken exactly n - 1 delays when its loop is over.
C18_DelaysBetweenRequests ==
    /\ [](\A k \in 1..Len(delays) : delays[k] = k /\ k < Len(bookings))
    /\ [](Len(delays) = IF i = 0 THEN 0 ELSE IF pc = "loop" THEN i ELSE i - 1)
    /\ []((pc \in {"export", "finally", "done"} /\ bookings # <<>>) =>
            Len(delays) = Len(bookings) - 1)
    /\ [][delays' # delays =>
            /\ delays' = Append(delays, i)
            /\ reqState[i] = "RECORDED"
            /\ RecordsOf(i) # {}
            /\ i < Len(bookings)
            /\ reqState[i + 1] = "PENDING"
            /\ pc' = "loop"]_vars

\* a run over two requests is over and has taken its one delay
C18_Witness ==
    /\ pc = "done"
    /\ Len(bookings) = 2
    /\ processed = <<1, 2>>
    /\ delays = <<1>>

FlightExtracted == pc \in {"extract_passengers", "combine"}

\* C19: after extract_flight_details, a page whose route container has exactly two
\* sub-elements a and b gives Source = a and Destination = b (their trimmed texts);
\* a route container with fewer than two sub-elements, or no route container, leaves
\* both Source and Destination at 'Not found'.
C19_RouteFromTwoSpans ==
    FlightExtracted =>
        /\ (page.route # Absent /\ Len(page.route) = 2) =>
               /\ flight_details.Source = Trimmed(page.route[1])
               /\ flight_details.Destination = Trimmed(page.route[2])
        /\ (page.route = Absent \/ Len(page.route) < 2) =>
               /\ flight_details.Source = "Not found"
               /\ flight_details.Destination = "Not found"
        /\ (page.route # Absent /\ page.route = <<"DEL", "BOM">>) =>
               /\ flight_details.Source = "DEL"
               /\ flight_details.Destination = "BOM"

\* the route was read from a container of two spans
C19_Witness ==
    /\ FlightExtracted
    /\ page.route # Absent
    /\ page.route = <<" BLR ", "HYD ">>
    /\ flight_details.Source = "BLR"
    /\ flight_details.Destination = "HYD"

\* n characters of s from position k are a row of n - 1 digits and an uppercase
\* letter, with no word character before or after them
IsSeatWord(s, k, n) ==
    /\ k + n - 1 <= Len(s)
    /\ \A d \in k..(k + n - 2) : IsIn(Char(s, d), Digits)
    /\ IsIn(Char(s, k + n - 1), UpperAlphabet)
    /\ k > 1 => ~IsIn(Char(s, k - 1), WordChars)
    /\ k + n - 1 < Len(s) => ~IsIn(Char(s, k + n), WordChars)

SeatWords(s) == {w \in (1..Len(s)) \X {2, 3} : IsSeatWord(s, w[1], w[2])}

\* C20: after extract_passenger_details, Seat_Number is the first occurrence, in the
\* text of the seat element, of one or two digits followed by one uppercase letter
\* standing as a whole word ('Seat 16A, Window' gives '16A'); it is 'Not assigned'
\* when the text has no such occurrence or the section has no seat element.
C20_SeatNumber ==
    (pc = "combine" /\ Len(page.sections) = 1 /\ Len(passengers) = 1) =>
        LET t == page.sections[1].seat
            seat == passengers[1].Seat_Number
        IN  /\ t = Absent => seat = "Not assigned"
            /\ (t # Absent /\ SeatWords(t) = {}) => seat = "Not assigned"
            /\ (t # Absent /\ SeatWords(t) # {}) =>
                  \E w \in SeatWords(t) :
                      /\ \A v \in SeatWords(t) : w[1] <= v[1]
                      /\ seat = SubSeq(t, w[1], w[1] + w[2] - 1)
            /\ t = "Seat 16A, Window" => seat = "16A"

\* of two seats in the text the first was taken
C20_Witness ==
    /\ pc = "combine"
    /\ page.sections[1].seat = "Seats 3B and 14C"
    /\ passengers[1].Seat_Number = "3B"

Named(section) == section.name # Absent /\ Trimmed(section.name) # ""

\* C21: every passenger extract_passenger_details returns has a non-empty name; a
\* section without a name element, or whose name is empty after trimming, gives no
\* passenger and does not keep later sections from being extracted; the passengers
\* are those of the named sections, in page order.
C21_NamedPassengersInOrder ==
    pc = "combine" =>
        LET named == SelectSeq(page.sections, Named)
        IN  /\ Len(passengers) = Len(named)
            /\ \A k \in 1..Len(passengers) :
                  /\ passengers[k].Name # ""
                  /\ passengers[k].Name = Trimmed(named[k].name)

\* the first section had no name element and the second was extracted
C21_Witness ==
    /\ pc = "combine"
    /\ Len(page.sections) = 2
    /\ page.sections[1].name = Absent
    /\ Len(passengers) = 1
    /\ passengers[1].Name = "Asha Rao"

\* C22: every passenger extract_passenger_details returns has a non-empty
\* Flight_Status, taken from the primary selector when its element is present, else
\* from the first alternative with text, else the default.
C22_StatusNeverEmpty ==
    pc = "combine" => \A k \in 1..Len(passengers) : passengers[k].Flight_Status # ""

\* the selector each single-element flight field is read from
FieldSelector ==
    [Departure_Date |-> ".booking-info-container-other-info__date span",
     Flight_Number |-> ".flight-code",
     Departure_Time |-> ".departure-time",
     Arrival_Time |-> ".arrival-time",
     Stop_Type |-> ".flight-stops",
     Cabin_Baggage |-> ".cabin .cabin-value",
     Checkin_Baggage |-> ".checkin .checkin-value"]

\* what each of these fields holds when its element is the one of FullEl
ScrapedValue ==
    [Departure_Date |-> "12 Jan 2025",
     Flight_Number |-> "6E 2045",
     Departure_Time |-> "06:10",
     Arrival_Time |-> "08:25",
     Stop_Type |-> "Non-stop",
     Cabin_Baggage |-> "7kg Cabin",
     Checkin_Baggage |-> "15kg Check-in"]

ProvenanceKept ==
    /\ flight_details.BMS_Code = Request.bms_code
    /\ flight_details.PNR = Request.pnr
    /\ flight_details.Last_Name = Request.lastname

ElementFieldsIndependent ==
    \A f \in DOMAIN FieldSelector :
        flight_details[f] = IF page.el[FieldSelector[f]] = Absent THEN "Not found"
                            ELSE ScrapedValue[f]

\* C23 as stated: each of the nine flight fields by itself holds 'Not found' exactly
\* when its own element is missing (the first span for Source, the second for
\* Destination) and its scraped value otherwise.
C23_EveryFieldIndependent ==
    FlightExtracted =>
        /\ ProvenanceKept
        /\ ElementFieldsIndependent
        /\ flight_details.Source =
              IF page.route = Absent \/ Len(page.route) < 1 THEN "Not found"
              ELSE Trimmed(page.route[1])
        /\ flight_details.Destination =
              IF page.route = Absent \/ Len(page.route) < 2 THEN "Not found"
              ELSE Trimmed(page.route[2])

\* C23, amended: extract_flight_details returns a complete record whose provenance
\* fields are the request's; each of the seven single-element fields holds 'Not found'
\* exactly when its element is missing and its scraped value otherwise, whatever the
\* other elements do; Source and Destination are read together and both hold
\* 'Not found' unless the route container has at least two spans.
C23_FieldsIndependentRoutePaired ==
    FlightExtracted =>
        /\ DOMAIN flight_details =
              {"BMS_Code", "PNR", "Last_Name", "Source", "Destination"}
              \cup DOMAIN FieldSelector
        /\ ProvenanceKept
        /\ ElementFieldsIndependent
        /\ (page.route = Absent \/ Len(page.route) < 2) =>
              flight_details.Source = "Not found" /\ flight_details.Destination = "Not found"
        /\ (page.route # Absent /\ Len(page.route) >= 2) =>
              /\ flight_details.Source = Trimmed(page.route[1])
              /\ flight_details.Destination = Trimmed(page.route[2])

\* the flight number and the check-in baggage elements were missing, the others not
C23_Witness ==
    /\ FlightExtracted
    /\ flight_details.Flight_Number = "Not found"
    /\ flight_details.Checkin_Baggage = "Not found"
    /\ flight_details.Departure_Date = "12 Jan 2025"
    /\ flight_details.Cabin_Baggage = "7kg Cabin"
    /\ flight_details.Source = "DEL"

\* C24: in the standalone tool every request handed to scrape_booking_details
\* leaves at least one record in scraped_data, so that after the run loop there are
\* at least as many records as requests.
C24_StandaloneRecordPerRequest ==
    pc \in {"sa_export", "sa_fatal", "sa_finally", "sa_done"} =>
        /\ processed # <<>>
        /\ Len(scraped_data) >= Len(processed)
        /\ \A j \in Range(processed) : RecordsOf(j) # {}

\* C25: between requests, the records a request contributed all carry the same
\* Passenger_Count c and there are max(1, c) of them: one record with count 0, or
\* c >= 1 records with count c.
C25_CountMatchesRecords ==
    pc \in OutsideScrape =>
        \A j \in Returned :
            \E c \in 0..Len(scraped_data) :
                /\ \A k \in RecordsOf(j) : scraped_data[k].Passenger_Count = c
                /\ Cardinality(RecordsOf(j)) = Max(1, c)

\* one request gave two passenger records, the other a single record with count 0
C25_Witness ==
    /\ pc = "done"
    /\ Len(scraped_data) = 3
    /\ Cardinality({j \in Returned : Cardinality(RecordsOf(j)) = 2}) = 1
    /\ \E k \in 1..3 : scraped_data[k].Passenger_Count = 2
    /\ \E k \in 1..3 : scraped_data[k].Passenger_Count = 0

\* C26: every record carries the reference, surname and secondary code of the
\* request that produced it, on every path; the records of a loaded page carry the
\* flight fields as extracted, whatever the passenger fields are; and a step never
\* changes or removes a record that is already in scraped_data.
C26_ProvenanceKept ==
    /\ [](\A k \in 1..Len(scraped_data) :
            /\ scraped_data[k].PNR = bookings[origin[k]].pnr
            /\ scraped_data[k].Last_Name = bookings[origin[k]].lastname
            /\ scraped_data[k].BMS_Code = bookings[origin[k]].bms_code)
    /\ [][/\ Len(scraped_data') >= Len(scraped_data)
          /\ SubSeq(scraped_data', 1, Len(scraped_data)) = scraped_data
          /\ pc = "combine" =>
                \A k \in (Len(scraped_data) + 1)..Len(scraped_data') :
                    \A f \in DOMAIN flight_details :
                        scraped_data'[k][f] = flight_details[f]]_vars

\* the second request's passenger record follows the first request's error record,
\* each with its own request's provenance
C26_Witness ==
    /\ pc = "done"
    /\ Len(bookings) = 2
    /\ bookings[1].pnr # bookings[2].pnr
    /\ Len(scraped_data) = 2
    /\ scraped_data[1].Name = "Error"
    /\ scraped_data[2].Name = "Asha Rao"
    /\ scraped_data[2].PNR = bookings[2].pnr

\* C27: whenever fill_booking_details types into the form, the element it uses for
\* the surname is another element than the one for the reference, and one the
\* displayed-and-enabled check accepted.
C27_SurnameFieldDistinct ==
    [][(pc = "type_form" /\ fields' # fields) =>
         lastname_input # pnr_input /\ broke.lastname]_vars

\* how long each wait inside a request lasts in the scraper's code, in ms
NominalWait == [navigate |-> 1000, scroll |-> 500, click |-> 3000, check_loaded |-> 2000]

\* C28: the delay chosen in the front-end changes the inter-request delay only:
\* the wait after navigation, the waits around the click and the wait at the start
\* of check_booking_loaded last their own time whatever delay is chosen.
C28_OnlyInterRequestDelayChanges ==
    \A k \in 1..Len(waits) :
        waits[k].site # "between" => waits[k].ms = NominalWait[waits[k].site]

\* C29: when the front-end's Start action has finished, on whichever path,
\* time.sleep is the original function again.
C29_SleepRestored ==
    pc = "ui_done" => time_sleep = "original"

\* C30: in a front-end run the progress counter is incremented once per request,
\* when the request is handed to scrape_booking_details and before it is scraped;
\* it never exceeds total_bookings, the row count of the uploaded table, so every
\* fraction given to the progress bar lies in (0, 1]; and it is 1 only when the
\* loader filtered out no row.
C30_ProgressWithinBounds ==
    /\ [](progress_callback # None =>
            /\ total_bookings = Len(csv_file.rows)
            /\ processed_count = Len(processed)
            /\ processed_count <= total_bookings
            /\ (processed_count > 0 /\ processed_count = total_bookings) =>
                  Len(bookings) = Len(csv_file.rows))
    /\ [][processed_count' # processed_count =>
            /\ processed_count' = processed_count + 1
            /\ processed_count' \in 1..total_bookings
            /\ pc = "loop" /\ pc' = "navigate"
            /\ processed' = Append(processed, i')
            /\ reqState[i'] = "PENDING" /\ reqState'[i'] = "START"]_vars

\* a run over three rows, one of them filtered out, has ended with the counter at 2
C30_Witness ==
    /\ pc = "ui_done"
    /\ total_bookings = 3
    /\ processed_count = 2
    /\ Len(bookings) = 2

====
